---------------------------- MODULE Spec2Model ----------------------------
(***************************************************************************)
(* A model of the music player component (components/MusicPlayer.tsx, kept *)
(* in src/pages/api/music.ts) and of its track catalog.                    *)
(*                                                                         *)
(* Strings are sequences of one-character strings, so that the string      *)
(* functions of the code (replace, trim, split, includes, the regular      *)
(* expressions) are computed character by character.  An optional field    *)
(* that holds `undefined` or `null` holds the one-element sequences        *)
(* undefined and null below; identifiers (id, trackId, picId, lyricId)     *)
(* are atomic strings with "" for undefined.                               *)
(***************************************************************************)
EXTENDS Integers, Sequences, FiniteSets, TLC

(***************************************************************************)
(* JavaScript values                                                       *)
(***************************************************************************)
undefined == <<"undefined">>
null == <<"null">>

\* !v for a string-valued optional: undefined, null and '' are falsy
Falsy(v) == v \in {undefined, null, <<>>}

\* v ?? d
Coalesce(v, d) == IF v \in {undefined, null} THEN d ELSE v

\* String(id) of an identifier that may be undefined
StringOf(id) == IF id = "" THEN "undefined" ELSE id

(***************************************************************************)
(* String primitives                                                       *)
(***************************************************************************)
\* whether pat occurs in s at position i
StartsAt(s, pat, i) ==
  /\ i + Len(pat) - 1 <= Len(s)
  /\ \A k \in 1..Len(pat) : s[i + k - 1] = pat[k]

\* s.includes(sub)
Includes(s, sub) == \E i \in 1..(Len(s) + 1) : StartsAt(s, sub, i)

RECURSIVE ReplaceAllFrom(_, _, _, _)
ReplaceAllFrom(s, pat, rep, i) ==
  IF i > Len(s) THEN <<>>
  ELSE IF StartsAt(s, pat, i)
       THEN rep \o ReplaceAllFrom(s, pat, rep, i + Len(pat))
       ELSE <<s[i]>> \o ReplaceAllFrom(s, pat, rep, i + 1)

\* s.replace(/pat/g, rep) for a literal, non-empty pat
ReplaceAll(s, pat, rep) == ReplaceAllFrom(s, pat, rep, 1)

WhiteSpace == {" ", "\t", "\r", "\n"}

RECURSIVE TrimStart(_)
TrimStart(s) ==
  IF s = <<>> THEN <<>>
  ELSE IF Head(s) \in WhiteSpace THEN TrimStart(Tail(s)) ELSE s

RECURSIVE TrimEnd(_)
TrimEnd(s) ==
  IF s = <<>> THEN <<>>
  ELSE IF s[Len(s)] \in WhiteSpace THEN TrimEnd(SubSeq(s, 1, Len(s) - 1)) ELSE s

\* s.trim()
Trim(s) == TrimEnd(TrimStart(s))

UpperToLower == [c \in {"A", "B", "F", "T", "X", "M", "P", "W", "I", "H", "E"} |->
  CASE c = "A" -> "a" [] c = "B" -> "b" [] c = "F" -> "f" [] c = "T" -> "t"
    [] c = "X" -> "x" [] c = "M" -> "m" [] c = "P" -> "p" [] c = "W" -> "w"
    [] c = "I" -> "i" [] c = "H" -> "h" [] c = "E" -> "e"]

LowerChar(c) == IF c \in DOMAIN UpperToLower THEN UpperToLower[c] ELSE c

\* s.toLowerCase()
ToLowerCase(s) == [i \in 1..Len(s) |-> LowerChar(s[i])]

\* parts.join(sep)
RECURSIVE Join(_, _)
Join(parts, sep) ==
  IF parts = <<>> THEN <<>>
  ELSE IF Len(parts) = 1 THEN parts[1]
  ELSE parts[1] \o sep \o Join(Tail(parts), sep)

RECURSIVE Flatten(_)
Flatten(ss) == IF ss = <<>> THEN <<>> ELSE Head(ss) \o Flatten(Tail(ss))

Range(s) == {s[i] : i \in DOMAIN s}

(***************************************************************************)
(* sanitizeUrl                                                             *)
(***************************************************************************)
Amp == <<"&", "a", "m", "p", ";">>

\* the url left as it came
keepUrl(url) == url

sanitizeUrl(url) == ReplaceAll(url, Amp, <<"&">>)

(***************************************************************************)
(* parseLyricLines                                                         *)
(***************************************************************************)
Digits == {"0", "1", "2", "3", "4", "5", "6", "7", "8", "9"}

DigitVal(c) ==
  CASE c = "0" -> 0 [] c = "1" -> 1 [] c = "2" -> 2 [] c = "3" -> 3 [] c = "4" -> 4
    [] c = "5" -> 5 [] c = "6" -> 6 [] c = "7" -> 7 [] c = "8" -> 8 [] c = "9" -> 9

\* Number.parseInt(s, 10) of a non-empty string of digits
RECURSIVE ParseInt(_)
ParseInt(s) ==
  IF s = <<>> THEN 0 ELSE ParseInt(SubSeq(s, 1, Len(s) - 1)) * 10 + DigitVal(s[Len(s)])

IsDigits(s, from, n) ==
  /\ from + n - 1 <= Len(s)
  /\ \A k \in from..(from + n - 1) : s[k] \in Digits

\* Number.POSITIVE_INFINITY, above every time a tag can denote (in milliseconds)
POSITIVE_INFINITY == 1000000000

\* the fraction digits padded on the left instead
PadStart3(s) == SubSeq(<<"0", "0", "0">> \o s, Len(s) + 1, Len(s) + 3)

\* s.padEnd(3, '0').slice(0, 3)
PadEnd3(s) == SubSeq(s \o <<"0", "0", "0">>, 1, 3)

\* The ways /\[(\d{1,2}):(\d{1,2})(?:\.(\d{1,3}))?]/ matches s at position i: the
\* lengths of the three digit groups (n3 = 0: no fraction group).
TagShapesAt(s, i) ==
  {sh \in [n1 : 1..2, n2 : 1..2, n3 : 0..3] :
     /\ i <= Len(s) /\ s[i] = "["
     /\ IsDigits(s, i + 1, sh.n1)
     /\ i + 1 + sh.n1 <= Len(s) /\ s[i + 1 + sh.n1] = ":"
     /\ IsDigits(s, i + 2 + sh.n1, sh.n2)
     /\ IF sh.n3 = 0
        THEN /\ i + 2 + sh.n1 + sh.n2 <= Len(s)
             /\ s[i + 2 + sh.n1 + sh.n2] = "]"
        ELSE /\ i + 2 + sh.n1 + sh.n2 <= Len(s)
             /\ s[i + 2 + sh.n1 + sh.n2] = "."
             /\ IsDigits(s, i + 3 + sh.n1 + sh.n2, sh.n3)
             /\ i + 3 + sh.n1 + sh.n2 + sh.n3 <= Len(s)
             /\ s[i + 3 + sh.n1 + sh.n2 + sh.n3] = "]"}

TagMatches(s, i) == TagShapesAt(s, i) # {}

\* the match at i: its length and its groups match[1], match[2], match[3]
TagAt(s, i) ==
  LET sh == CHOOSE x \in TagShapesAt(s, i) : TRUE
  IN [len |-> 3 + sh.n1 + sh.n2 + (IF sh.n3 = 0 THEN 0 ELSE 1 + sh.n3),
      g1 |-> SubSeq(s, i + 1, i + sh.n1),
      g2 |-> SubSeq(s, i + 2 + sh.n1, i + 1 + sh.n1 + sh.n2),
      g3 |-> IF sh.n3 = 0 THEN undefined
             ELSE SubSeq(s, i + 3 + sh.n1 + sh.n2, i + 2 + sh.n1 + sh.n2 + sh.n3)]

\* [...line.matchAll(timeTagRegex)]
RECURSIVE MatchAllFrom(_, _)
MatchAllFrom(line, i) ==
  IF i > Len(line) THEN <<>>
  ELSE IF TagMatches(line, i)
       THEN <<TagAt(line, i)>> \o MatchAllFrom(line, i + TagAt(line, i).len)
       ELSE MatchAllFrom(line, i + 1)

\* line.replace(timeTagRegex, '')
RECURSIVE StripTagsFrom(_, _)
StripTagsFrom(line, i) ==
  IF i > Len(line) THEN <<>>
  ELSE IF TagMatches(line, i)
       THEN StripTagsFrom(line, i + TagAt(line, i).len)
       ELSE <<line[i]>> \o StripTagsFrom(line, i + 1)

\* lyric.split(/\r?\n/)
RECURSIVE SplitLinesFrom(_, _, _)
SplitLinesFrom(s, i, cur) ==
  IF i > Len(s) THEN <<cur>>
  ELSE IF s[i] = "\n" THEN <<cur>> \o SplitLinesFrom(s, i + 1, <<>>)
  ELSE IF s[i] = "\r" /\ i < Len(s) /\ s[i + 1] = "\n"
       THEN <<cur>> \o SplitLinesFrom(s, i + 2, <<>>)
  ELSE SplitLinesFrom(s, i + 1, Append(cur, s[i]))

SplitLines(s) == SplitLinesFrom(s, 1, <<>>)

\* totalSeconds of one match, in milliseconds
TagTime(m) ==
  LET minutes == ParseInt(m.g1)
      seconds == ParseInt(m.g2)
      millisRaw == Coalesce(m.g3, <<"0">>)
      millis == ParseInt(PadEnd3(millisRaw))
  IN minutes * 60000 + seconds * 1000 + millis

\* the entries one line pushes onto result
LineEntries(line) ==
  LET text == Trim(StripTagsFrom(line, 1))
      matches == MatchAllFrom(line, 1)
  IN IF matches = <<>>
     THEN (IF Len(text) > 0 THEN <<[time |-> POSITIVE_INFINITY, text |-> text]>> ELSE <<>>)
     ELSE IF Len(text) > 0
          THEN [k \in 1..Len(matches) |-> [time |-> TagTime(matches[k]), text |-> text]]
          ELSE <<>>

\* result.sort((a, b) => a.time - b.time): a stable sort by time
RECURSIVE InsertByTime(_, _)
InsertByTime(sorted, e) ==
  IF sorted = <<>> THEN <<e>>
  ELSE IF sorted[Len(sorted)].time <= e.time THEN Append(sorted, e)
  ELSE Append(InsertByTime(SubSeq(sorted, 1, Len(sorted) - 1), e), sorted[Len(sorted)])

RECURSIVE SortByTime(_)
SortByTime(s) ==
  IF s = <<>> THEN <<>>
  ELSE InsertByTime(SortByTime(SubSeq(s, 1, Len(s) - 1)), s[Len(s)])

\* one step of the reduce that drops an entry equal to the one before it
DedupStep(acc, current) ==
  IF acc = <<>> THEN <<current>>
  ELSE IF acc[Len(acc)].time = current.time /\ acc[Len(acc)].text = current.text
       THEN acc
       ELSE Append(acc, current)

RECURSIVE DedupAdjacent(_)
DedupAdjacent(s) ==
  IF s = <<>> THEN <<>>
  ELSE DedupStep(DedupAdjacent(SubSeq(s, 1, Len(s) - 1)), s[Len(s)])

parseLyricLines(lyric) ==
  IF Falsy(lyric) THEN <<>>
  ELSE LET lines == SplitLines(lyric)
           result == Flatten([k \in 1..Len(lines) |-> LineEntries(lines[k])])
       IN DedupAdjacent(SortByTime(result))

(***************************************************************************)
(* normalizeText, collectArtistTokens, selectBestSearchResult              *)
(***************************************************************************)
\* the characters of the class /[\s'"...()\[\]...._/\-]+/ that the model's
\* alphabet holds
StripChars == WhiteSpace \cup {"'", "!", "(", ")", "[", "]", ".", "_", "/", "-"}

KeepChar(c) == c \notin StripChars

normalizeText(value) ==
  IF Falsy(value) THEN <<>>
  ELSE SelectSeq(ReplaceAll(ToLowerCase(value), Amp, <<"&">>), KeepChar)

\* The length of the match of /[,/&x+]|feat\.?|ft\.?|with/gi at position i of
\* s, 0 when there is none.
SeparatorAt(s, i) ==
  LET low == ToLowerCase(s)
      dot(n) == IF i + n <= Len(s) /\ s[i + n] = "." THEN 1 ELSE 0
  IN IF low[i] \in {",", "/", "&", "x", "+"} THEN 1
     ELSE IF StartsAt(low, <<"f", "e", "a", "t">>, i) THEN 4 + dot(4)
     ELSE IF StartsAt(low, <<"f", "t">>, i) THEN 2 + dot(2)
     ELSE IF StartsAt(low, <<"w", "i", "t", "h">>, i) THEN 4
     ELSE 0

\* item.split(/[,/&x+]|feat\.?|ft\.?|with/gi)
RECURSIVE SplitArtistFrom(_, _, _)
SplitArtistFrom(s, i, cur) ==
  IF i > Len(s) THEN <<cur>>
  ELSE IF SeparatorAt(s, i) > 0
       THEN <<cur>> \o SplitArtistFrom(s, i + SeparatorAt(s, i), <<>>)
       ELSE SplitArtistFrom(s, i + 1, Append(cur, s[i]))

NonEmpty(s) == s # <<>>

\* artist is the array `raw` of the code: a string s is <<s>>, and undefined,
\* '' and [] are all <<>> (each of them yields no token)
collectArtistTokens(artist) ==
  LET split == Flatten([k \in 1..Len(artist) |-> SplitArtistFrom(artist[k], 1, <<>>)])
      tokens == [k \in 1..Len(split) |-> normalizeText(split[k])]
  IN SelectSeq(tokens, NonEmpty)

\* `raw` for a track's artist (a string or undefined)
ArtistArray(artist) == IF Falsy(artist) THEN <<>> ELSE <<artist>>

\* the score the forEach body gives item against target
ItemScore(item, target) ==
  LET targetName == normalizeText(target.name)
      targetArtists == collectArtistTokens(ArtistArray(target.artist))
      itemName == normalizeText(item.name)
      itemArtists == collectArtistTokens(item.artist)
      nameScore == IF targetName # <<>> /\ itemName = targetName THEN 4
                   ELSE IF targetName # <<>> /\ Includes(itemName, targetName) THEN 2
                   ELSE 0
      hit == \E k \in 1..Len(itemArtists) : itemArtists[k] \in Range(targetArtists)
      artistScore == IF Len(targetArtists) > 0 /\ Len(itemArtists) > 0 /\ hit THEN 4 ELSE 0
      sourceScore == IF item.source # "" /\ item.source = target.source THEN 1 ELSE 0
  IN nameScore + artistScore + sourceScore

\* -Infinity, below every score
NEGATIVE_INFINITY == -1

\* the comparison with >= for >: a later item of equal score replaces best
BetterOrEqualToBest(score, index, acc) == score >= acc.bestScore

\* whether the forEach body replaces best by the item at index
BetterThanBest(score, index, acc) ==
  score > acc.bestScore \/ (score = acc.bestScore /\ index < acc.bestIndex)

\* the forEach over results[1..n]: best, bestScore and bestIndex after n items
\* (indices are 0-based as in the code)
RECURSIVE BestAfter(_, _, _)
BestAfter(results, target, n) ==
  IF n = 0 THEN [bestScore |-> NEGATIVE_INFINITY, bestIndex |-> 0]
  ELSE LET acc == BestAfter(results, target, n - 1)
           score == ItemScore(results[n], target)
       IN IF BetterThanBest(score, n - 1, acc)
          THEN [bestScore |-> score, bestIndex |-> n - 1]
          ELSE acc

\* selectBestSearchResult: the 0-based index of the item returned, -1 for null
selectBestSearchResult(results, target) ==
  IF Len(results) = 0 THEN -1
  ELSE BestAfter(results, target, Len(results)).bestIndex

(***************************************************************************)
(* registerRequest                                                         *)
(***************************************************************************)
RATE_LIMIT_WINDOW_MS == 5 * 60 * 1000
RATE_LIMIT_MAX_REQUESTS == 60

RateLimitMessage == "rate-limited"
ServiceMessage == "service-unavailable"

\* a filter that drops the timestamp that is exactly one window old
RetainedStrictly(timestamps, windowStart) ==
  LET InWindow(timestamp) == timestamp > windowStart
  IN SelectSeq(timestamps, InWindow)

\* requestTimestampsRef.current.filter((timestamp) => timestamp >= windowStart)
RetainedTimestamps(timestamps, windowStart) ==
  LET InWindow(timestamp) == timestamp >= windowStart
  IN SelectSeq(timestamps, InWindow)

\* the limit tested with > for >=
LimitExceeded(retained) == Len(retained) > RATE_LIMIT_MAX_REQUESTS

\* whether registerRequest throws on the filtered list
LimitReached(retained) == Len(retained) >= RATE_LIMIT_MAX_REQUESTS

\* registerRequest pushing the timestamp before it tests the limit
registerRequestPushFirst(timestamps, t) ==
  LET windowStart == t - RATE_LIMIT_WINDOW_MS
      retained == RetainedTimestamps(timestamps, windowStart)
  IN [thrown |-> LimitReached(retained), timestamps |-> Append(retained, t)]

\* registerRequest at time t on the list timestamps: the list it leaves in
\* requestTimestampsRef.current and whether it threw
registerRequest(timestamps, t) ==
  LET windowStart == t - RATE_LIMIT_WINDOW_MS
      retained == RetainedTimestamps(timestamps, windowStart)
  IN IF LimitReached(retained)
     THEN [thrown |-> TRUE, timestamps |-> retained]
     ELSE [thrown |-> FALSE, timestamps |-> Append(retained, t)]

(***************************************************************************)
(* Tracks                                                                  *)
(***************************************************************************)
\* A track's id is `${source}-${rawId}`: the id of the catalog entry or of the
\* search item, or, for a search item without id, `${keyword}-${index}`.
TrackIdOf(source, raw) == [source |-> source, raw |-> raw, keyword |-> <<>>, index |-> -1]
TrackIdAt(source, keyword, index) ==
  [source |-> source, raw |-> "", keyword |-> keyword, index |-> index]

\* createTrack(track): album, duration and fileSizeKb, which no decision of
\* the code reads, are left out of the record; bitrate 0 is undefined
createTrack(track) ==
  [id |-> track.id, name |-> track.name, artist |-> track.artist,
   source |-> track.source, keyword |-> track.keyword, trackId |-> track.trackId,
   picId |-> track.picId, lyricId |-> track.lyricId, bitrate |-> track.bitrate,
   url |-> undefined,
   cover |-> IF track.picId # "" THEN undefined ELSE null,
   lyric |-> null, tLyric |-> null]

\* a replacement that adds the track to a list that does not hold it
UpsertById(list, updated) ==
  IF \E k \in 1..Len(list) : list[k].id = updated.id
  THEN [k \in 1..Len(list) |-> IF list[k].id = updated.id THEN updated ELSE list[k]]
  ELSE Append(list, updated)

\* prev.map((item) => (item.id === updated.id ? updated : item))
ReplaceById(list, updated) ==
  [k \in 1..Len(list) |-> IF list[k].id = updated.id THEN updated ELSE list[k]]

(***************************************************************************)
(* ensureTrackResolved                                                     *)
(*                                                                         *)
(* A call in flight is a record: the arguments, the locals of the function *)
(* and pc, the request whose response it awaits.  Each operator below runs *)
(* the function from one await to the next, at time t on the timestamp     *)
(* list, and yields {st, call, timestamps, sent, track, error}: st is      *)
(* "pending" (awaiting the response of call.pc), "returned" (with track)   *)
(* or "thrown" (with error); sent lists the callMusicApi calls of the      *)
(* step, each with whether registerRequest admitted it: an admitted call   *)
(* is handed to fetch, a rejected one throws before its fetch.             *)
(***************************************************************************)
NoKeywordMessage == "no-keyword"
NotFoundMessage == "not-found"
NoUrlMessage == "no-url"

\* callMusicApi({types}) whose registerRequest returned, or threw
Admitted(types) == [types |-> types, admitted |-> TRUE]
Rejected(types) == [types |-> types, admitted |-> FALSE]

NoTrack ==
  [id |-> TrackIdOf("", ""), name |-> <<>>, artist |-> undefined, source |-> "",
   keyword |-> undefined, trackId |-> "", picId |-> "", lyricId |-> "", bitrate |-> 0,
   url |-> undefined, cover |-> null, lyric |-> null, tLyric |-> null]

\* the locals at the start of the function
NewCall(track, desiredBitrate) ==
  [track |-> track, desiredBitrate |-> desiredBitrate, pc |-> "",
   trackId |-> track.trackId, picId |-> track.picId, lyricId |-> track.lyricId,
   resolvedName |-> track.name, resolvedArtist |-> track.artist,
   lyricText |-> Coalesce(track.lyric, null),
   translationText |-> Coalesce(track.tLyric, null),
   resolvedUrl |-> <<>>, cover |-> null]

Pending(call, types, timestamps, sent) ==
  [st |-> "pending", call |-> [call EXCEPT !.pc = types], timestamps |-> timestamps,
   sent |-> Append(sent, Admitted(types)), track |-> NoTrack, updated |-> FALSE, error |-> ""]

\* updated: whether updateTrackInStates(track) ran before the return
Returned(call, track, updated, timestamps, sent) ==
  [st |-> "returned", call |-> [call EXCEPT !.pc = ""], timestamps |-> timestamps,
   sent |-> sent, track |-> track, updated |-> updated, error |-> ""]

Thrown(call, error, timestamps, sent) ==
  [st |-> "thrown", call |-> [call EXCEPT !.pc = ""], timestamps |-> timestamps,
   sent |-> sent, track |-> NoTrack, updated |-> FALSE, error |-> error]

\* const resolvedTrack = {...track, ...}; updateTrackInStates(resolvedTrack);
\* return resolvedTrack
Finish(call, timestamps, sent) ==
  Returned(call,
           [call.track EXCEPT !.url = call.resolvedUrl, !.trackId = call.trackId,
                              !.picId = call.picId, !.lyricId = call.lyricId,
                              !.cover = call.cover, !.name = call.resolvedName,
                              !.artist = call.resolvedArtist,
                              !.bitrate = call.desiredBitrate,
                              !.lyric = call.lyricText, !.tLyric = call.translationText],
           TRUE, timestamps, sent)

\* if (!lyricText && lyricId) { try { await callMusicApi({types: 'lyric'}) ...
LyricPhase(call, timestamps, sent, t) ==
  IF Falsy(call.lyricText) /\ call.lyricId # ""
  THEN LET reg == registerRequest(timestamps, t)
       IN IF reg.thrown THEN Finish(call, reg.timestamps, Append(sent, Rejected("lyric")))
          ELSE Pending(call, "lyric", reg.timestamps, sent)
  ELSE Finish(call, timestamps, sent)

\* a pic step that asks for a cover only when the track has none
PicPhaseIfNoCover(call, timestamps, sent, t) ==
  IF call.picId # "" /\ Falsy(call.cover)
  THEN LET reg == registerRequest(timestamps, t)
       IN IF reg.thrown
          THEN LyricPhase(call, reg.timestamps, Append(sent, Rejected("pic")), t)
          ELSE Pending(call, "pic", reg.timestamps, sent)
  ELSE LyricPhase(call, timestamps, sent, t)

\* if (picId) { try { await callMusicApi({types: 'pic'}) ...
PicPhase(call, timestamps, sent, t) ==
  IF call.picId # ""
  THEN LET reg == registerRequest(timestamps, t)
       IN IF reg.thrown
          THEN LyricPhase(call, reg.timestamps, Append(sent, Rejected("pic")), t)
          ELSE Pending(call, "pic", reg.timestamps, sent)
  ELSE LyricPhase(call, timestamps, sent, t)

\* const urlData = await callMusicApi({types: 'url'})
UrlPhase(call, timestamps, sent, t) ==
  LET reg == registerRequest(timestamps, t)
  IN IF reg.thrown
     THEN Thrown(call, RateLimitMessage, reg.timestamps, Append(sent, Rejected("url")))
     ELSE Pending(call, "url", reg.timestamps, sent)

\* (track.keyword ?? `${track.name} ${track.artist ?? ''}`).trim()
KeywordOf(track) ==
  Trim(Coalesce(track.keyword, track.name \o <<" ">> \o Coalesce(track.artist, <<>>)))

\* a call without the early return for a track that has its url
StartResolveAlways(track, desiredBitrate, timestamps, t) ==
  LET call == NewCall(track, desiredBitrate)
  IN IF call.trackId = ""
     THEN IF KeywordOf(track) = <<>>
          THEN Thrown(call, NoKeywordMessage, timestamps, <<>>)
          ELSE LET reg == registerRequest(timestamps, t)
               IN IF reg.thrown
                  THEN Thrown(call, RateLimitMessage, reg.timestamps,
                              <<Rejected("search")>>)
                  ELSE Pending(call, "search", reg.timestamps, <<>>)
     ELSE UrlPhase(call, timestamps, <<>>, t)

\* the call up to its first await
StartResolve(track, desiredBitrate, timestamps, t) ==
  LET call == NewCall(track, desiredBitrate)
  IN IF ~Falsy(track.url) /\ track.bitrate = desiredBitrate
     THEN Returned(call, track, FALSE, timestamps, <<>>)
     ELSE IF call.trackId = ""
          THEN IF KeywordOf(track) = <<>>
               THEN Thrown(call, NoKeywordMessage, timestamps, <<>>)
               ELSE LET reg == registerRequest(timestamps, t)
                    IN IF reg.thrown
                       THEN Thrown(call, RateLimitMessage, reg.timestamps,
                                   <<Rejected("search")>>)
                       ELSE Pending(call, "search", reg.timestamps, <<>>)
          ELSE UrlPhase(call, timestamps, <<>>, t)

\* the locals after the search response: best's fields taken over
WithBest(call, best) ==
  LET artistText == Join(best.artist, <<",", " ">>)
  IN [call EXCEPT !.trackId = StringOf(best.id),
                  !.picId = IF best.pic_id # "" THEN best.pic_id ELSE @,
                  !.lyricId = IF best.lyric_id # "" THEN best.lyric_id ELSE @,
                  !.resolvedName = IF ~Falsy(best.name) THEN best.name ELSE @,
                  !.resolvedArtist = IF ~Falsy(artistText) THEN artistText ELSE @]

\* from the response of the search request to the next await
OnSearchResponse(call, resp, timestamps, t) ==
  IF ~resp.ok THEN Thrown(call, ServiceMessage, timestamps, <<>>)
  ELSE LET best == selectBestSearchResult(resp.list, call.track)
       IN IF best = -1 THEN Thrown(call, NotFoundMessage, timestamps, <<>>)
          ELSE UrlPhase(WithBest(call, resp.list[best + 1]), timestamps, <<>>, t)

\* OnUrlResponse without its check of urlData.url
OnUrlResponseUnchecked(call, resp, timestamps, t) ==
  IF ~resp.ok THEN Thrown(call, ServiceMessage, timestamps, <<>>)
  ELSE PicPhase([call EXCEPT !.resolvedUrl = sanitizeUrl(Coalesce(resp.url, <<>>)),
                             !.cover = Coalesce(call.track.cover, null)],
                timestamps, <<>>, t)

\* from the response of the url request to the next await
OnUrlResponse(call, resp, timestamps, t) ==
  IF ~resp.ok THEN Thrown(call, ServiceMessage, timestamps, <<>>)
  ELSE IF Falsy(resp.url) THEN Thrown(call, NoUrlMessage, timestamps, <<>>)
  ELSE PicPhase([call EXCEPT !.resolvedUrl = sanitizeUrl(resp.url),
                             !.cover = Coalesce(call.track.cover, null)],
                timestamps, <<>>, t)

\* typeof v === 'string' && v.trim()
NonBlankString(v) == v \notin {undefined, null} /\ Trim(v) # <<>>

\* a pic step without its try and catch: a failed request fails the call
OnPicResponseUncaught(call, resp, timestamps, t) ==
  IF ~resp.ok THEN Thrown(call, ServiceMessage, timestamps, <<>>)
  ELSE LyricPhase(IF NonBlankString(resp.url) THEN [call EXCEPT !.cover = resp.url]
                  ELSE call,
                  timestamps, <<>>, t)

\* from the response of the pic request to the next await
OnPicResponse(call, resp, timestamps, t) ==
  LyricPhase(IF resp.ok /\ NonBlankString(resp.url) THEN [call EXCEPT !.cover = resp.url]
             ELSE call,
             timestamps, <<>>, t)

\* from the response of the lyric request to the return
OnLyricResponse(call, resp, timestamps, t) ==
  Finish(IF resp.ok
         THEN [call EXCEPT
                 !.lyricText = IF NonBlankString(resp.lyric) THEN resp.lyric ELSE @,
                 !.translationText = IF NonBlankString(resp.tlyric) THEN resp.tlyric ELSE @]
         ELSE call,
         timestamps, <<>>)

\* a response of the remote API: ok is response.ok; list, url, lyric and tlyric
\* are the fields of the JSON body the code reads.  A response that is not ok
\* stands for every way callMusicApi throws after its fetch: a status that
\* is not OK, a fetch that rejects, a body that is not JSON.
Response(ok, list, url, lyric, tlyric) ==
  [ok |-> ok, list |-> list, url |-> url, lyric |-> lyric, tlyric |-> tlyric]

\* the function from the response of call.pc to the next await
OnResponse(call, resp, timestamps, t) ==
  CASE call.pc = "search" -> OnSearchResponse(call, resp, timestamps, t)
    [] call.pc = "url" -> OnUrlResponse(call, resp, timestamps, t)
    [] call.pc = "pic" -> OnPicResponse(call, resp, timestamps, t)
    [] call.pc = "lyric" -> OnLyricResponse(call, resp, timestamps, t)

(***************************************************************************)
(* State                                                                   *)
(***************************************************************************)
VARIABLES
  \* the clock (Date.now()), requestTimestampsRef.current, and the log of the
  \* requests handed to fetch: [types, at]
  now, requestTimestampsRef, fetched,
  \* the last callMusicApi call of the rate-limiter specification, and how
  \* often its clock has moved
  lastCall, ticks,
  \* parseLyricLines: the lyric document, its text, and the lines returned
  lyricDoc, lyricInput, lyricLines, lyricDone,
  \* the lyric panel: the tLyric of the current track (its lyric is
  \* lyricInput), showTranslation and currentTime (useState), the time in
  \* milliseconds
  tLyricInput, showTranslation, currentTime,
  \* selectBestSearchResult: its arguments and the index it returned
  selResults, selTarget, selBest, selDone,
  \* the component's state (useState), with the source's names; progress
  \* stands for progress, currentTime and duration, which the handlers
  \* reset together
  currentSongIndex, isPlaying, progress, localTracks, selectedSource,
  selectedBitrate, allTracks, musicList, coverUrl, searchTerm, loadingTrackIndex,
  errorMessage, isSearching, showingSearchResults, searchPage, searchHasMore,
  searchPageInput, lastSearchKeyword,
  \* the component's refs (useRef); requestTimestampsRef is above
  soundRef, autoPlayRef, playRequestIdRef, searchRequestIdRef,
  \* the playSong and performSearch calls suspended at an await
  playing, searching,
  \* the last playSong call that took a request id, how it ended, whether a
  \* call it superseded has ended since (late), and how the call before it
  \* had ended when it was issued (after), with the last playSong call of
  \* all, guarded or not (asked: its index, by a click or by the end of a
  \* track, and then in which playback mode), and the parity of the number of
  \* these calls (asks); the last performSearch call or cancellation of the
  \* searches, whether a call it superseded has ended since (late), and how
  \* the call ended (st), with the last call of a handler of the page
  \* controls (asked: which, and the page it computed) and the parity of the
  \* number of these calls (asks)
  lastPlay, lastSearch,
  \* the info modal: its state (null of infoModalTrack is NoTrack, null of
  \* infoModalError is ""), infoRequestIdRef.current, and the
  \* handleShowTrackInfo calls suspended at their await, with the last of
  \* these calls: how it ended (st) and whether a call it superseded has
  \* ended since (late)
  infoModalVisible, infoModalTrack, infoModalLoading, infoModalError,
  infoRequestIdRef, informing, lastInfo,
  \* the playback mode (useState) and playbackModeRef.current
  playbackMode, playbackModeRef,
  \* one ensureTrackResolved call, observed from outside
  resolveCall,
  \* the API route: the catalog its module holds, and the last request with
  \* the response it got
  served, apiExchange

rateVars == <<now, requestTimestampsRef, fetched, lastCall, ticks>>
lyricVars ==
  <<lyricDoc, lyricInput, lyricLines, lyricDone, tLyricInput, showTranslation, currentTime>>
selVars == <<selResults, selTarget, selBest, selDone>>
trackVars == <<localTracks, allTracks, musicList>>
uiVars ==
  <<currentSongIndex, isPlaying, progress, selectedSource, selectedBitrate, coverUrl,
    searchTerm, loadingTrackIndex, errorMessage, isSearching, showingSearchResults,
    searchPage, searchHasMore, searchPageInput, lastSearchKeyword, soundRef,
    autoPlayRef, playRequestIdRef, searchRequestIdRef, playing, searching,
    lastPlay, lastSearch, infoModalVisible, infoModalTrack, infoModalLoading,
    infoModalError, infoRequestIdRef, informing, lastInfo, playbackMode,
    playbackModeRef>>
appVars == <<trackVars, uiVars, resolveCall>>
apiVars == <<served, apiExchange>>
vars == <<rateVars, lyricVars, selVars, appVars, apiVars>>

\* useState<number | null>(null) of loadingTrackIndex: null as an index
NullIndex == -1

\* what the playSong and playNext of a render close over: the musicList,
\* currentSongIndex, loadingTrackIndex and selectedBitrate of that render
NoClosure ==
  [musicList |-> <<>>, currentSongIndex |-> -1, loadingTrackIndex |-> NullIndex,
   selectedBitrate |-> 0]

\* soundRef.current: null, or the Howl created for a url; state is what the
\* Howl does: "stopped", "starting" (play() called, its play event not yet
\* delivered), "playing" or "paused"; closure is what the playNext that its
\* onend calls closes over; seek is its position: 0 at the start, 1 past it
NoSound ==
  [loaded |-> FALSE, url |-> <<>>, state |-> "stopped", closure |-> NoClosure, seek |-> 0]
Howl(url, closure) ==
  [loaded |-> TRUE, url |-> url, state |-> "stopped", closure |-> closure, seek |-> 0]

NoPlay ==
  [requestId |-> 0, index |-> NullIndex, auto |-> FALSE, st |-> "", late |-> FALSE,
   after |-> "", asked |-> [index |-> NullIndex, by |-> "", mode |-> ""], asks |-> 0]
NoSearch ==
  [requestId |-> 0, late |-> FALSE, st |-> "", asked |-> [by |-> "", page |-> 0],
   asks |-> 0]
NoInfo == [requestId |-> 0, late |-> FALSE, st |-> ""]

\* no request has reached the API route
NoExchange == [method |-> "", query |-> <<>>, body |-> <<>>, status |-> 0, json |-> <<>>]

NoResolveCall ==
  [st |-> "", track |-> NoTrack, desiredBitrate |-> 0, call |-> NewCall(NoTrack, 0),
   result |-> NoTrack, error |-> "", urlParts |-> <<>>, got |-> <<>>,
   calls |-> <<>>, before |-> <<<<>>, <<>>, <<>>>>]

\* the values of the variables a specification does not use
IdleRate ==
  /\ now = 0 /\ requestTimestampsRef = <<>> /\ fetched = <<>> /\ ticks = 0
  /\ lastCall = [types |-> "", thrown |-> FALSE, before |-> <<>>, n |-> 0]
IdleLyric ==
  /\ lyricDoc = <<>> /\ lyricInput = <<>> /\ lyricLines = <<>> /\ lyricDone = FALSE
  /\ tLyricInput = <<>> /\ showTranslation = FALSE /\ currentTime = 0
IdleSel ==
  /\ selResults = <<>> /\ selDone = FALSE /\ selBest = -1
  /\ selTarget = [name |-> undefined, artist |-> undefined, source |-> "netease"]
IdleUi ==
  /\ currentSongIndex = -1 /\ isPlaying = FALSE /\ progress = 0
  /\ selectedSource = "netease" /\ selectedBitrate = 320 /\ coverUrl = null
  /\ searchTerm = <<>> /\ loadingTrackIndex = NullIndex /\ errorMessage = ""
  /\ isSearching = FALSE /\ showingSearchResults = FALSE /\ searchPage = 1
  /\ searchHasMore = FALSE /\ searchPageInput = <<"1">> /\ lastSearchKeyword = null
  /\ soundRef = NoSound /\ autoPlayRef = FALSE
  /\ playRequestIdRef = 0 /\ searchRequestIdRef = 0
  /\ playing = {} /\ searching = {}
  /\ lastPlay = NoPlay /\ lastSearch = NoSearch
  /\ infoModalVisible = FALSE /\ infoModalTrack = NoTrack /\ infoModalLoading = FALSE
  /\ infoModalError = "" /\ infoRequestIdRef = 0 /\ informing = {}
  /\ lastInfo = NoInfo
  /\ playbackMode = "order" /\ playbackModeRef = "order"
IdleTracks == localTracks = <<>> /\ allTracks = <<>> /\ musicList = <<>>
IdleResolve == resolveCall = NoResolveCall
IdleApp == IdleUi /\ IdleTracks /\ IdleResolve
IdleApi == served = <<>> /\ apiExchange = NoExchange

(***************************************************************************)
(* The rate limiter under a clock                                          *)
(***************************************************************************)
MaxCalls == 3
MaxTicks == 2

RequestTypes == {"search", "url", "pic", "lyric"}

\* how far the clock moves between two calls
ClockSteps == {1, RATE_LIMIT_WINDOW_MS - 1, RATE_LIMIT_WINDOW_MS}

\* n requests admitted at time 0, as n calls at the same millisecond leave them
Burst(n) == [i \in 1..n |-> 0]
BurstLog(n) == [i \in 1..n |-> [types |-> "search", at |-> 0]]

InitRate ==
  /\ now = 0 /\ ticks = 0
  /\ \E n \in {0, RATE_LIMIT_MAX_REQUESTS - 2, RATE_LIMIT_MAX_REQUESTS - 1} :
       /\ requestTimestampsRef = Burst(n)
       /\ fetched = BurstLog(n)
  /\ lastCall = [types |-> "", thrown |-> FALSE, before |-> <<>>, n |-> 0]
  /\ IdleLyric /\ IdleSel /\ IdleApp /\ IdleApi

\* Date.now() moves on
Tick(d) ==
  /\ ticks < MaxTicks
  /\ ticks' = ticks + 1
  /\ now' = now + d
  /\ UNCHANGED <<requestTimestampsRef, fetched, lastCall, lyricVars, selVars, appVars, apiVars>>

\* callMusicApi(params) up to its fetch: registerRequest, then the request is
\* handed to fetch unless registerRequest threw
CallMusicApi(types) ==
  LET reg == registerRequest(requestTimestampsRef, now)
  IN /\ lastCall.n < MaxCalls
     /\ requestTimestampsRef' = reg.timestamps
     /\ fetched' = IF reg.thrown THEN fetched
                   ELSE Append(fetched, [types |-> types, at |-> now])
     /\ lastCall' = [types |-> types, thrown |-> reg.thrown,
                      before |-> requestTimestampsRef, n |-> lastCall.n + 1]
     /\ UNCHANGED <<now, ticks, lyricVars, selVars, appVars, apiVars>>

NextRate ==
  \/ \E d \in ClockSteps : Tick(d)
  \/ \E types \in RequestTypes : CallMusicApi(types)

SpecRate == InitRate /\ [][NextRate]_vars

(***************************************************************************)
(* parseLyricLines on lyric documents                                      *)
(***************************************************************************)
MaxLyricLines == 3

\* A line of a lyric document: the time tags before its text (each the digits of
\* its minutes, seconds and fraction, "" for no fraction), the text, the time
\* tags after the text, and the line break that ends the line.
LyricTag(mm, ss, frac) == [mm |-> mm, ss |-> ss, frac |-> frac]

LyricLine(tags, text, after, eol) == [tags |-> tags, text |-> text, after |-> after, eol |-> eol]

LF == <<"\n">>
CRLF == <<"\r", "\n">>

DocLines ==
  { LyricLine(<<LyricTag(<<"0", "0">>, <<"0", "1">>, <<"5">>)>>, <<" ", "a", " ">>, <<>>, LF),
    LyricLine(<<LyricTag(<<"0">>, <<"1">>, <<>>), LyricTag(<<"1">>, <<"0", "2">>, <<"0", "5">>)>>,
              <<"b">>, <<>>, CRLF),
    LyricLine(<<>>, <<"c">>, <<>>, LF),
    LyricLine(<<LyricTag(<<"0", "0">>, <<"0", "1">>, <<"5">>)>>, <<>>, <<>>, LF),
    LyricLine(<<>>, <<" ">>, <<>>, CRLF),
    LyricLine(<<>>, <<"[", "1", ":", "2", ".", "1", "2", "3", "4", "]", "z">>, <<>>, LF),
    LyricLine(<<LyricTag(<<"0">>, <<"1">>, <<"5", "0", "0">>)>>, <<"a">>, <<>>, LF),
    LyricLine(<<LyricTag(<<"0">>, <<"1">>, <<"5">>)>>, <<"b">>,
              <<LyricTag(<<"9", "9">>, <<"9", "9">>, <<"9", "9", "9">>)>>, LF),
    LyricLine(<<>>, <<"[", "1", "2", "3", ":", "4", "]">>,
              <<LyricTag(<<"0">>, <<"0">>, <<>>)>>, CRLF) }

\* the text of a tag and of a line
TagText(tag) ==
  <<"[">> \o tag.mm \o <<":">> \o tag.ss
    \o (IF tag.frac = <<>> THEN <<>> ELSE <<".">> \o tag.frac) \o <<"]">>

LineText(line) ==
  Flatten([k \in 1..Len(line.tags) |-> TagText(line.tags[k])]) \o line.text
    \o Flatten([k \in 1..Len(line.after) |-> TagText(line.after[k])])

\* the text of a document: its lines, each but the last followed by its line break
RECURSIVE DocText(_)
DocText(doc) ==
  IF doc = <<>> THEN <<>>
  ELSE IF Len(doc) = 1 THEN LineText(doc[1])
  ELSE LineText(doc[1]) \o doc[1].eol \o DocText(Tail(doc))

Docs == UNION {[1..n -> DocLines] : n \in 0..MaxLyricLines}

InitLyric ==
  /\ lyricDoc \in Docs
  /\ lyricInput \in (IF lyricDoc = <<>> THEN {null, undefined, <<>>} ELSE {DocText(lyricDoc)})
  /\ lyricLines = <<>>
  /\ lyricDone = FALSE
  /\ tLyricInput = <<>> /\ showTranslation = FALSE /\ currentTime = 0
  /\ IdleRate /\ IdleSel /\ IdleApp /\ IdleApi

ParseLyric ==
  /\ ~lyricDone
  /\ lyricLines' = parseLyricLines(lyricInput)
  /\ lyricDone' = TRUE
  /\ UNCHANGED <<lyricDoc, lyricInput, tLyricInput, showTranslation, currentTime,
                 rateVars, selVars, appVars, apiVars>>

NextLyric == ParseLyric

SpecLyric == InitLyric /\ [][NextLyric]_vars

(***************************************************************************)
(* The lyric panel: displayLyricLines and activeLyricIndex                 *)
(***************************************************************************)
MaxActiveLines == 2

\* the lines on display, of the values that the memo depends on
displayLyricLines(originalLyricLines, translationLyricLines, show) ==
  LET hasTranslation == Len(translationLyricLines) > 0
      hasOriginal == Len(originalLyricLines) > 0
  IN IF show /\ hasTranslation THEN translationLyricLines
     ELSE IF hasOriginal THEN originalLyricLines
     ELSE IF hasTranslation THEN translationLyricLines
     ELSE <<>>

\* Number.isFinite(entry.time)
IsFiniteTime(time) == time # POSITIVE_INFINITY

\* the loop of activeLyricIndex from position i on (i counts from 0), index
\* being its variable of that name: a line without a time is passed over, and
\* the loop ends at the first line later than currentTime + 0.25
RECURSIVE LyricLoop(_, _, _, _)
LyricLoop(lines, time, i, index) ==
  IF i >= Len(lines) THEN index
  ELSE IF ~IsFiniteTime(lines[i + 1].time) THEN LyricLoop(lines, time, i + 1, index)
  ELSE IF lines[i + 1].time <= time + 250 THEN LyricLoop(lines, time, i + 1, i)
  ELSE index

\* displayLyricLines.findIndex((entry) => Number.isFinite(entry.time))
FirstFinite(lines) ==
  IF \A k \in 1..Len(lines) : ~IsFiniteTime(lines[k].time) THEN -1
  ELSE (CHOOSE k \in 1..Len(lines) :
          /\ IsFiniteTime(lines[k].time)
          /\ \A j \in 1..(k - 1) : ~IsFiniteTime(lines[j].time)) - 1

\* an active line found without the quarter of a second of lead
activeLyricIndexWithoutLead(lines, time) ==
  IF Len(lines) = 0 THEN -1
  ELSE LET index == LyricLoop(lines, time - 250, 0, -1)
       IN IF index = -1
          THEN (IF FirstFinite(lines) = -1 THEN 0 ELSE FirstFinite(lines))
          ELSE index

\* the index of the active line, of the values that the memo depends on
activeLyricIndex(lines, time) ==
  IF Len(lines) = 0 THEN -1
  ELSE LET index == LyricLoop(lines, time, 0, -1)
       IN IF index = -1
          THEN (IF FirstFinite(lines) = -1 THEN 0 ELSE FirstFinite(lines))
          ELSE index

\* the lyrics of a track: up to MaxActiveLines lines, with a time (1.5 s; 1 s
\* and 62.05 s) or without one, or blank; and its translations
ActiveLines ==
  { LyricLine(<<LyricTag(<<"0", "0">>, <<"0", "1">>, <<"5">>)>>, <<"a">>, <<>>, LF),
    LyricLine(<<LyricTag(<<"0">>, <<"1">>, <<>>), LyricTag(<<"1">>, <<"0", "2">>, <<"0", "5">>)>>,
              <<"b">>, <<>>, LF),
    LyricLine(<<>>, <<"c">>, <<>>, LF),
    LyricLine(<<>>, <<" ">>, <<>>, LF) }
ActiveDocs == UNION {[1..n -> ActiveLines] : n \in 0..MaxActiveLines}
Translations ==
  {null, <<"[", "0", ":", "0", "2", "]", "t">>, <<"u">>}

\* the times of the player: around the times of the lines less the lead
PlayerTimes == {0, 749, 750, 1249, 1250, 1800, 61799, 61800}

InitActive ==
  /\ \E doc \in ActiveDocs :
       lyricInput \in (IF doc = <<>> THEN {null, undefined} ELSE {DocText(doc)})
  /\ tLyricInput \in Translations
  /\ showTranslation = FALSE /\ currentTime = 0
  /\ lyricDoc = <<>> /\ lyricLines = <<>> /\ lyricDone = FALSE
  /\ IdleRate /\ IdleSel /\ IdleApp /\ IdleApi

\* the translation button, shown when there is a translation:
\* setShowTranslation((prev) => !prev)
ToggleTranslation ==
  /\ Len(parseLyricLines(tLyricInput)) > 0
  /\ showTranslation' = ~showTranslation
  /\ UNCHANGED <<lyricDoc, lyricInput, lyricLines, lyricDone, tLyricInput, currentTime,
                 rateVars, selVars, appVars, apiVars>>

\* the progress of the sound, or the seek bar: setCurrentTime(time)
SetCurrentTime(time) ==
  /\ time # currentTime
  /\ currentTime' = time
  /\ UNCHANGED <<lyricDoc, lyricInput, lyricLines, lyricDone, tLyricInput,
                 showTranslation, rateVars, selVars, appVars, apiVars>>

NextActive ==
  \/ ToggleTranslation
  \/ \E time \in PlayerTimes : SetCurrentTime(time)

SpecActive == InitActive /\ [][NextActive]_vars

(***************************************************************************)
(* selectBestSearchResult on result lists                                  *)
(***************************************************************************)
MaxResults == 2

Sources == {"netease", "joox"}

TargetNames == {<<"A", "b">>, <<" ", "-">>, undefined}
TargetArtists == {undefined, <<"a", ",", "b">>, <<"c", "X", "b">>}
ItemNames == {<<"a", " ", "B", "!">>, <<"c", "a", "b">>, undefined}
ItemArtists == {<<>>, <<<<"b">>>>, <<<<"a", " ", "f", "t", ".", " ", "d">>, <<"d">>>>}
ItemSources == {"netease", ""}

Targets == [name : TargetNames, artist : TargetArtists, source : Sources]
Items == [name : ItemNames, artist : ItemArtists, source : ItemSources]

InitSel ==
  /\ selTarget \in Targets
  /\ selResults \in UNION {[1..n -> Items] : n \in 0..MaxResults}
  /\ selBest = -1
  /\ selDone = FALSE
  /\ IdleRate /\ IdleLyric /\ IdleApp /\ IdleApi

SelectBest ==
  /\ ~selDone
  /\ selBest' = selectBestSearchResult(selResults, selTarget)
  /\ selDone' = TRUE
  /\ UNCHANGED <<selResults, selTarget, rateVars, lyricVars, appVars, apiVars>>

NextSel == SelectBest

SpecSel == InitSel /\ [][NextSel]_vars

(***************************************************************************)
(* ensureTrackResolved on tracks                                           *)
(***************************************************************************)
\* how many of the 60 requests of the window an earlier burst has used up
Prefills == {0, RATE_LIMIT_MAX_REQUESTS - 3, RATE_LIMIT_MAX_REQUESTS - 2,
             RATE_LIMIT_MAX_REQUESTS - 1, RATE_LIMIT_MAX_REQUESTS}

\* The tracks handed to ensureTrackResolved: of the catalog or of a search
\* (no url yet), or resolved before (a url comes with a trackId).
ResolveInputs ==
  { [NoTrack EXCEPT !.id = TrackIdOf("netease", "1"), !.name = <<"a">>,
                    !.artist = <<"x">>, !.source = "netease", !.keyword = k,
                    !.trackId = t, !.picId = p, !.lyricId = l, !.bitrate = ub[2],
                    !.url = ub[1], !.cover = c, !.lyric = ly] :
      k \in {undefined, <<" ">>, <<"k">>}, t \in {"", "t1"}, p \in {"", "p1"},
      l \in {"", "l1"},
      ub \in {<<undefined, 320>>, <<<<"u", "0">>, 320>>, <<<<"u", "0">>, 128>>},
      c \in {undefined, <<"c", "0">>}, ly \in {null, <<"l", "0">>} }
    \ {tr \in [id : {TrackIdOf("netease", "1")}, name : {<<"a">>}, artist : {<<"x">>},
               source : {"netease"}, keyword : {undefined, <<" ">>, <<"k">>},
               trackId : {""}, picId : {"", "p1"}, lyricId : {"", "l1"},
               bitrate : {320, 128}, url : {<<"u", "0">>},
               cover : {undefined, <<"c", "0">>}, lyric : {null, <<"l", "0">>},
               tLyric : {null}] : TRUE}

\* another track of the lists
Bystander ==
  [NoTrack EXCEPT !.id = TrackIdOf("netease", "2"), !.name = <<"b">>,
                  !.source = "netease", !.trackId = "t2", !.bitrate = 320]

SearchItem(id, name, artist, source, pic_id, lyric_id) ==
  [id |-> id, name |-> name, artist |-> artist, source |-> source,
   pic_id |-> pic_id, lyric_id |-> lyric_id]

ItemHit == SearchItem("t9", <<"a">>, <<<<"x">>, <<"y">>>>, "netease", "p9", "l9")
ItemMiss == SearchItem("t8", <<"z">>, <<>>, "kuwo", "", "")
ItemBare == SearchItem("", undefined, <<>>, "", "", "")

\* the responses the remote API may give to a request of each type; a url is
\* given by the parts that "&amp;" separates in it
SearchResponses ==
  {Response(TRUE, list, undefined, undefined, undefined) :
     list \in {<<>>, <<ItemHit>>, <<ItemMiss, ItemHit>>, <<ItemBare>>}}
    \cup {Response(FALSE, <<>>, undefined, undefined, undefined)}
UrlParts == {<<<<"u", "1">>>>, <<<<"u">>, <<"v">>, <<"w">>>>, <<<<"u">>, <<"a", "m", "p", ";">>>>}
UrlResponse(parts) == Response(TRUE, <<>>, Join(parts, Amp), undefined, undefined)
UrlResponses ==
  {UrlResponse(parts) : parts \in UrlParts}
    \cup {Response(ok, <<>>, url, undefined, undefined) :
            ok \in BOOLEAN, url \in {undefined, <<>>}}
PicResponses ==
  {Response(ok, <<>>, url, undefined, undefined) :
     ok \in BOOLEAN, url \in {undefined, <<" ">>, <<"c", "1">>}}
LyricResponses ==
  {Response(TRUE, <<>>, undefined, ly[1], ly[2]) :
     ly \in {<<<<"l", "1">>, <<"t", "1">>>>, <<<<" ">>, <<"t", "1">>>>,
             <<<<"l", "1">>, null>>, <<undefined, undefined>>}}
    \cup {Response(FALSE, <<>>, undefined, undefined, undefined)}

ResponsesTo(types) ==
  CASE types = "search" -> SearchResponses
    [] types = "url" -> UrlResponses
    [] types = "pic" -> PicResponses
    [] types = "lyric" -> LyricResponses
    [] OTHER -> {}

\* the requests a step handed to fetch, as entries of the log
SentAt(sent, t) ==
  LET fetches == SelectSeq(sent, LAMBDA c : c.admitted)
  IN [k \in 1..Len(fetches) |-> [types |-> fetches[k].types, at |-> t]]

InitResolve ==
  /\ now = 0 /\ ticks = 0 /\ fetched = <<>>
  /\ lastCall = [types |-> "", thrown |-> FALSE, before |-> <<>>, n |-> 0]
  /\ \E n \in Prefills : requestTimestampsRef = Burst(n)
  /\ \E track \in ResolveInputs, desiredBitrate \in {320} :
       /\ localTracks = <<Bystander, track>>
       /\ allTracks = <<track>>
       /\ musicList = <<track, Bystander>>
       /\ resolveCall = [NoResolveCall EXCEPT !.st = "idle", !.track = track,
                                              !.desiredBitrate = desiredBitrate,
                                              !.before = <<localTracks, allTracks, musicList>>]
  /\ IdleLyric /\ IdleSel /\ IdleUi /\ IdleApi

\* what a step of the call leaves behind
ResolveStep(step, got, parts) ==
  /\ requestTimestampsRef' = step.timestamps
  /\ fetched' = fetched \o SentAt(step.sent, now)
  /\ resolveCall' = [resolveCall EXCEPT !.st = step.st, !.call = step.call,
                                        !.result = step.track, !.error = step.error,
                                        !.got = got, !.urlParts = parts,
                                        !.calls = @ \o step.sent]
  /\ localTracks' = IF step.updated THEN ReplaceById(localTracks, step.track) ELSE localTracks
  /\ allTracks' = IF step.updated THEN ReplaceById(allTracks, step.track) ELSE allTracks
  /\ musicList' = IF step.updated THEN ReplaceById(musicList, step.track) ELSE musicList
  /\ UNCHANGED <<now, lastCall, ticks, lyricVars, selVars, uiVars, apiVars>>

\* ensureTrackResolved(track, desiredBitrate) up to its first await
EnsureTrackResolved ==
  /\ resolveCall.st = "idle"
  /\ ResolveStep(StartResolve(resolveCall.track, resolveCall.desiredBitrate,
                              requestTimestampsRef, now),
                 <<>>, <<>>)

\* the response of the request the call awaits arrives
ResolveResponse(resp, parts) ==
  /\ resolveCall.st = "pending"
  /\ ResolveStep(OnResponse(resolveCall.call, resp, requestTimestampsRef, now),
                 Append(resolveCall.got, [types |-> resolveCall.call.pc, resp |-> resp]),
                 IF resolveCall.call.pc = "url" THEN parts ELSE resolveCall.urlParts)

NextResolve ==
  \/ EnsureTrackResolved
  \/ \E resp \in ResponsesTo(resolveCall.call.pc) \ {UrlResponse(parts) : parts \in UrlParts} :
       ResolveResponse(resp, <<>>)
  \/ \E parts \in UrlParts :
       resolveCall.call.pc = "url" /\ ResolveResponse(UrlResponse(parts), parts)

SpecResolve == InitResolve /\ [][NextResolve]_vars

(***************************************************************************)
(* The player: catalog, remote API, state                                  *)
(***************************************************************************)
\* The user acts while playRequestIdRef and searchRequestIdRef are below these:
\* MaxPlayRequests and MaxSearchRequests where the user plays and searches,
\* MaxPlays where the user only plays; the bitrate effect calls playSong while
\* playRequestIdRef is below MaxRequestIds.
MaxPlayRequests == 2
MaxSearchRequests == 2
MaxPlays == 3
MaxRequestIds == 5

DEFAULT_SOURCE == "netease"
DEFAULT_SEARCH_COUNT == 8

\* LOCAL_TRACKS: of the eight entries of the catalog, the second and third
\* of netease and the one of joox
LOCAL_TRACKS ==
  << [id |-> TrackIdOf("netease", "455311479"), name |-> <<"B", "e", "l", "i", "e", "v", "e", "r">>,
      artist |-> <<"I", "m", "a", "g", "i", "n", "e", " ", "D", "r", "a", "g", "o", "n", "s">>,
      source |-> "netease",
      keyword |-> <<"B", "e", "l", "i", "e", "v", "e", "r", " ", "I", "m", "a", "g", "i", "n", "e",
                    " ", "D", "r", "a", "g", "o", "n", "s">>,
      trackId |-> "455311479", picId |-> "18990764835137467", lyricId |-> "455311479",
      bitrate |-> 320],
     [id |-> TrackIdOf("netease", "36990266"), name |-> <<"F", "a", "d", "e", "d">>,
      artist |-> <<"A", "l", "a", "n", " ", "W", "a", "l", "k", "e", "r">>,
      source |-> "netease",
      keyword |-> <<"F", "a", "d", "e", "d", " ", "A", "l", "a", "n", " ", "W", "a", "l", "k", "e", "r">>,
      trackId |-> "36990266", picId |-> "109951165976856263", lyricId |-> "36990266",
      bitrate |-> 320],
     [id |-> TrackIdOf("joox", "Frg3HWBwnkFfslSYGv9NGA"),
      name |-> <<"S", "h", "a", "p", "e", " ", "o", "f", " ", "Y", "o", "u">>,
      artist |-> <<"E", "d", " ", "S", "h", "e", "e", "r", "a", "n">>,
      source |-> "joox",
      keyword |-> <<"S", "h", "a", "p", "e", " ", "o", "f", " ", "Y", "o", "u", " ", "E", "d", " ",
                    "S", "h", "e", "e", "r", "a", "n">>,
      trackId |-> "Frg3HWBwnkFfslSYGv9NGA==", picId |-> "Frg3HWBwnkFfslSYGv9NGA==",
      lyricId |-> "Frg3HWBwnkFfslSYGv9NGA==", bitrate |-> 320] >>

INITIAL_TRACKS == [k \in 1..Len(LOCAL_TRACKS) |-> createTrack(LOCAL_TRACKS[k])]

\* tracks.filter((track) => track.source === source)
OfSource(tracks, source) ==
  LET Matches(track) == track.source = source IN SelectSeq(tracks, Matches)

INITIAL_SOURCE_TRACKS == OfSource(INITIAL_TRACKS, DEFAULT_SOURCE)

\* the bitrates the select offers, of BITRATE_OPTIONS, and what is typed
\* into the search box
Bitrates == {320, 128}
SearchTerms == {<<>>, <<"k", " ">>}

\* String(n) of a natural number
DigitChars == <<"0", "1", "2", "3", "4", "5", "6", "7", "8", "9">>
RECURSIVE NumberToString(_)
NumberToString(n) ==
  IF n < 10 THEN <<DigitChars[n + 1]>>
  ELSE NumberToString(n \div 10) \o <<DigitChars[(n % 10) + 1]>>

\* What the remote API answers when it answers OK: the url of a track at a
\* bitrate (an id stands in it as one symbol), the cover of a picture id, the
\* lyric of a lyric id; and the non-OK answer.
OkResponse(call) ==
  CASE call.pc = "url" ->
         Response(TRUE, <<>>, <<"u", "/", call.trackId, "?", "a">> \o Amp \o <<"b", "r", "=">>
                                \o NumberToString(call.desiredBitrate), undefined, undefined)
    [] call.pc = "pic" -> Response(TRUE, <<>>, <<"c", "/", call.picId>>, undefined, undefined)
    [] call.pc = "lyric" -> Response(TRUE, <<>>, undefined, <<"l", "/", call.lyricId>>, null)
    [] OTHER -> Response(TRUE, <<>>, undefined, undefined, undefined)
NotOkResponse == Response(FALSE, <<>>, undefined, undefined, undefined)

\* the result lists of a search: one track of the catalog and one that is not
ItemFaded ==
  SearchItem("36990266", <<"F", "a", "d", "e", "d">>,
             << <<"A", "l", "a", "n", " ", "W", "a", "l", "k", "e", "r">> >>, "netease",
             "109951165976856263", "36990266")
ItemNew == SearchItem("9", <<"k">>, <<>>, "", "", "")
SearchLists == {<<>>, <<ItemNew>>, <<ItemNew, ItemFaded>>}

\* the state of the component as one record
State ==
  [currentSongIndex |-> currentSongIndex, isPlaying |-> isPlaying, progress |-> progress,
   localTracks |-> localTracks, selectedSource |-> selectedSource,
   selectedBitrate |-> selectedBitrate, allTracks |-> allTracks, musicList |-> musicList,
   coverUrl |-> coverUrl, searchTerm |-> searchTerm,
   loadingTrackIndex |-> loadingTrackIndex, errorMessage |-> errorMessage,
   isSearching |-> isSearching, showingSearchResults |-> showingSearchResults,
   searchPage |-> searchPage, searchHasMore |-> searchHasMore,
   searchPageInput |-> searchPageInput, lastSearchKeyword |-> lastSearchKeyword,
   soundRef |-> soundRef, autoPlayRef |-> autoPlayRef,
   playRequestIdRef |-> playRequestIdRef, searchRequestIdRef |-> searchRequestIdRef,
   requestTimestampsRef |-> requestTimestampsRef,
   playing |-> playing, searching |-> searching, lastPlay |-> lastPlay,
   lastSearch |-> lastSearch,
   infoModalVisible |-> infoModalVisible, infoModalTrack |-> infoModalTrack,
   infoModalLoading |-> infoModalLoading, infoModalError |-> infoModalError,
   infoRequestIdRef |-> infoRequestIdRef, informing |-> informing,
   lastInfo |-> lastInfo, playbackMode |-> playbackMode,
   playbackModeRef |-> playbackModeRef]

\* the state after a step is s
Commit(s) ==
  /\ currentSongIndex' = s.currentSongIndex /\ isPlaying' = s.isPlaying
  /\ progress' = s.progress /\ localTracks' = s.localTracks
  /\ selectedSource' = s.selectedSource /\ selectedBitrate' = s.selectedBitrate
  /\ allTracks' = s.allTracks /\ musicList' = s.musicList /\ coverUrl' = s.coverUrl
  /\ searchTerm' = s.searchTerm /\ loadingTrackIndex' = s.loadingTrackIndex
  /\ errorMessage' = s.errorMessage /\ isSearching' = s.isSearching
  /\ showingSearchResults' = s.showingSearchResults /\ searchPage' = s.searchPage
  /\ searchHasMore' = s.searchHasMore /\ searchPageInput' = s.searchPageInput
  /\ lastSearchKeyword' = s.lastSearchKeyword /\ soundRef' = s.soundRef
  /\ autoPlayRef' = s.autoPlayRef /\ playRequestIdRef' = s.playRequestIdRef
  /\ searchRequestIdRef' = s.searchRequestIdRef
  /\ requestTimestampsRef' = s.requestTimestampsRef
  /\ playing' = s.playing /\ searching' = s.searching
  /\ lastPlay' = s.lastPlay /\ lastSearch' = s.lastSearch
  /\ infoModalVisible' = s.infoModalVisible /\ infoModalTrack' = s.infoModalTrack
  /\ infoModalLoading' = s.infoModalLoading /\ infoModalError' = s.infoModalError
  /\ infoRequestIdRef' = s.infoRequestIdRef /\ informing' = s.informing
  /\ lastInfo' = s.lastInfo
  /\ playbackMode' = s.playbackMode /\ playbackModeRef' = s.playbackModeRef
  /\ UNCHANGED <<now, fetched, lastCall, ticks, lyricVars, selVars, resolveCall, apiVars>>

(***************************************************************************)
(* The player: handlers, as functions from state to state                  *)
(***************************************************************************)
\* an update of the lists on display that leaves localTracks as it is
updateTrackInLists(s, updated) ==
  [s EXCEPT !.allTracks = ReplaceById(@, updated),
            !.musicList = ReplaceById(@, updated)]

\* updateTrackInStates(updated)
updateTrackInStates(s, updated) ==
  [s EXCEPT !.localTracks = ReplaceById(@, updated),
            !.allTracks = ReplaceById(@, updated),
            !.musicList = ReplaceById(@, updated)]

\* const currentSong = currentSongIndex >= 0 ? musicList[currentSongIndex] : undefined
HasCurrentSong(s) == s.currentSongIndex >= 0 /\ s.currentSongIndex < Len(s.musicList)
currentSong(s) == IF HasCurrentSong(s) THEN s.musicList[s.currentSongIndex + 1] ELSE NoTrack

\* currentSong?.cover and currentSong?.url, the dependencies of two effects
CoverDep(s) == IF HasCurrentSong(s) THEN currentSong(s).cover ELSE undefined
UrlDep(s) == IF HasCurrentSong(s) THEN currentSong(s).url ELSE undefined

\* resetPlayer()
resetPlayer(s) ==
  [s EXCEPT !.playRequestIdRef = @ + 1, !.loadingTrackIndex = NullIndex,
            !.soundRef = NoSound, !.isPlaying = FALSE, !.currentSongIndex = -1,
            !.coverUrl = null, !.progress = 0]

\* how the playSong call of a request id ended, for lastPlay
Ended(s, task, st) ==
  [s EXCEPT !.lastPlay = IF @.requestId = task.requestId THEN [@ EXCEPT !.st = st]
                         ELSE [@ EXCEPT !.late = TRUE]]

\* what playSong does with resolvedTrack when its request id is the latest,
\* and its finally
PlayCompleted(s, task, resolvedTrack) ==
  Ended([s EXCEPT !.soundRef = NoSound, !.autoPlayRef = task.autoplay,
                  !.progress = 0, !.currentSongIndex = task.index,
                  !.coverUrl = Coalesce(resolvedTrack.cover, null),
                  !.loadingTrackIndex = NullIndex],
        task, "returned")

\* playSong without the test of its request id
PlayReturnedUnchecked(s, task, resolvedTrack) == PlayCompleted(s, task, resolvedTrack)

\* playSong after its await, resolvedTrack in hand, and its finally
PlayReturned(s, task, resolvedTrack) ==
  IF s.playRequestIdRef # task.requestId THEN Ended(s, task, "returned")
  ELSE PlayCompleted(s, task, resolvedTrack)

\* a catch and a finally of playSong without the test of the request id
PlayThrownUnchecked(s, task, error) ==
  Ended([s EXCEPT !.errorMessage = error, !.loadingTrackIndex = NullIndex], task, "thrown")

\* the catch of playSong, and its finally
PlayThrown(s, task, error) ==
  IF s.playRequestIdRef # task.requestId THEN Ended(s, task, "thrown")
  ELSE Ended([s EXCEPT !.errorMessage = error, !.loadingTrackIndex = NullIndex],
             task, "thrown")

\* a playSong call suspended in ensureTrackResolved: what it captured, and
\* the step the resolution is at ("thrown": rejected before its first await,
\* the catch not yet run)
PlayTask(requestId, index, autoplay, auto, step) ==
  [requestId |-> requestId, index |-> index, autoplay |-> autoplay, auto |-> auto,
   st |-> step.st, call |-> step.call, error |-> step.error]

\* the closure of the render of s
Closure(s) ==
  [musicList |-> s.musicList, currentSongIndex |-> s.currentSongIndex,
   loadingTrackIndex |-> s.loadingTrackIndex, selectedBitrate |-> s.selectedBitrate]

\* playSong(index, autoplay) of the render of closure, called in state s, up
\* to its first await, or to its end when the track has its url; auto:
\* called by the bitrate effect
playSongOf(closure, s, index, autoplay, auto) ==
  IF index < 0 \/ index >= Len(closure.musicList) THEN s
  ELSE IF closure.loadingTrackIndex # NullIndex /\ closure.loadingTrackIndex = index THEN s
  ELSE
    LET requestId == s.playRequestIdRef + 1
        originalTrack == closure.musicList[index + 1]
        needsNewBitrate == originalTrack.bitrate # closure.selectedBitrate
        baseTrack == [originalTrack EXCEPT !.bitrate = closure.selectedBitrate,
                                           !.url = IF needsNewBitrate THEN undefined ELSE @]
        s1 == updateTrackInStates(
                [s EXCEPT !.playRequestIdRef = requestId, !.loadingTrackIndex = index,
                          !.errorMessage = "", !.isPlaying = FALSE,
                          !.lastPlay = [@ EXCEPT !.requestId = requestId,
                                                 !.index = index, !.auto = auto,
                                                 !.st = "pending", !.late = FALSE,
                                                 !.after = s.lastPlay.st]],
                baseTrack)
        step == StartResolve(baseTrack, closure.selectedBitrate, s.requestTimestampsRef, now)
        task == PlayTask(requestId, index, autoplay, auto, step)
    IN IF ~Falsy(baseTrack.url) THEN PlayReturned(s1, task, baseTrack)
       ELSE [s1 EXCEPT !.requestTimestampsRef = step.timestamps,
                       !.playing = @ \cup {task}]

\* playSong(index, autoplay) of the render of s
playSong(s, index, autoplay, auto) == playSongOf(Closure(s), s, index, autoplay, auto)

\* the index playNext() of the render of closure passes to playSong;
\* candidate is what Math.floor(Math.random() * musicList.length) comes to
\* when it differs from currentSongIndex
NextIndexOf(closure, mode, candidate) ==
  IF closure.currentSongIndex < 0 THEN 0
  ELSE IF mode = "shuffle"
       THEN IF Len(closure.musicList) = 1 THEN closure.currentSongIndex ELSE candidate
  ELSE IF closure.currentSongIndex >= Len(closure.musicList) - 1 THEN 0
  ELSE closure.currentSongIndex + 1

\* playNext() of the render of closure, called in state s
playNextOf(closure, s, mode, candidate) ==
  IF Len(closure.musicList) = 0 THEN s
  ELSE playSongOf(closure, s, NextIndexOf(closure, mode, candidate), TRUE, FALSE)

\* list.map((item, index) => mappedTrack)
MappedTracks(list, source, trimmedKeyword, bitrate) ==
  [k \in 1..Len(list) |->
     LET item == list[k]
         lyricId == IF item.lyric_id # "" THEN item.lyric_id ELSE item.id
     IN [id |-> IF item.id # "" THEN TrackIdOf(source, item.id)
                ELSE TrackIdAt(source, trimmedKeyword, k - 1),
         name |-> Coalesce(item.name, trimmedKeyword),
         artist |-> Join(item.artist, <<",", " ">>),
         source |-> source, keyword |-> trimmedKeyword, trackId |-> item.id,
         picId |-> item.pic_id, lyricId |-> lyricId, bitrate |-> bitrate,
         url |-> undefined, cover |-> IF item.pic_id # "" THEN undefined ELSE null,
         lyric |-> null, tLyric |-> null]]

\* mapped.findIndex((item) => item.id === id), from 0, -1 for none
FindIndex(mapped, id) ==
  IF \E k \in 1..Len(mapped) : mapped[k].id = id
  THEN (CHOOSE k \in 1..Len(mapped) :
          mapped[k].id = id /\ \A j \in 1..(k - 1) : mapped[j].id # id) - 1
  ELSE -1

SearchEmptyMessage == "search-empty"

\* a performSearch call that is no longer the latest ends: nothing is written
SearchDiscarded(s) == [s EXCEPT !.lastSearch.late = TRUE]

\* what performSearch does with the result list when its request id is the
\* latest, and its finally
SearchCompleted(s, task, list) ==
    LET mapped == MappedTracks(list, task.source, task.keyword, task.selectedBitrate)
        merge == task.hasActiveSound /\ task.hasActiveTrack
        existingIndex == FindIndex(mapped, task.activeTrack.id)
        nextList == IF ~merge THEN mapped
                    ELSE IF existingIndex >= 0
                         THEN [mapped EXCEPT ![existingIndex + 1] = task.activeTrack]
                         ELSE <<task.activeTrack>> \o mapped
        nextIndex == IF ~merge THEN s.currentSongIndex
                     ELSE IF existingIndex >= 0 THEN existingIndex ELSE 0
    IN [s EXCEPT !.allTracks = mapped, !.musicList = nextList,
                 !.currentSongIndex = nextIndex, !.showingSearchResults = TRUE,
                 !.lastSearchKeyword = task.keyword, !.searchPage = task.page,
                 !.searchPageInput = NumberToString(task.page),
                 !.searchHasMore = (Len(mapped) = DEFAULT_SEARCH_COUNT),
                 !.errorMessage = IF Len(mapped) = 0 THEN SearchEmptyMessage ELSE "",
                 !.isSearching = FALSE, !.lastSearch.st = "returned"]

\* performSearch without the test of its request id
SearchReturnedUnchecked(s, task, list) == SearchCompleted(s, task, list)

\* performSearch after its await, the result list in hand, and its finally
SearchReturned(s, task, list) ==
  IF s.searchRequestIdRef # task.requestId THEN SearchDiscarded(s)
  ELSE SearchCompleted(s, task, list)

\* a finally of performSearch without the test of the request id
SearchThrownUnchecked(s, task, error) ==
  IF s.searchRequestIdRef # task.requestId
  THEN [SearchDiscarded(s) EXCEPT !.isSearching = FALSE]
  ELSE [s EXCEPT !.errorMessage = error, !.showingSearchResults = TRUE,
                 !.lastSearchKeyword = task.keyword, !.searchPage = task.page,
                 !.searchPageInput = NumberToString(task.page),
                 !.searchHasMore = FALSE, !.allTracks = <<>>,
                 !.musicList = IF task.hasActiveSound THEN @ ELSE <<>>,
                 !.isSearching = FALSE, !.lastSearch.st = "thrown"]

\* a catch of performSearch that empties musicList whatever plays
SearchThrownClearsList(s, task, error) ==
  IF s.searchRequestIdRef # task.requestId THEN SearchDiscarded(s)
  ELSE [s EXCEPT !.errorMessage = error, !.showingSearchResults = TRUE,
                 !.lastSearchKeyword = task.keyword, !.searchPage = task.page,
                 !.searchPageInput = NumberToString(task.page),
                 !.searchHasMore = FALSE, !.allTracks = <<>>,
                 !.musicList = <<>>,
                 !.isSearching = FALSE, !.lastSearch.st = "thrown"]

\* the catch of performSearch, and its finally
SearchThrown(s, task, error) ==
  IF s.searchRequestIdRef # task.requestId THEN SearchDiscarded(s)
  ELSE [s EXCEPT !.errorMessage = error, !.showingSearchResults = TRUE,
                 !.lastSearchKeyword = task.keyword, !.searchPage = task.page,
                 !.searchPageInput = NumberToString(task.page),
                 !.searchHasMore = FALSE, !.allTracks = <<>>,
                 !.musicList = IF task.hasActiveSound THEN @ ELSE <<>>,
                 !.isSearching = FALSE, !.lastSearch.st = "thrown"]

\* performSearch(source, keyword, page) up to its await
performSearch(s, source, keyword, page) ==
  LET trimmedKeyword == Trim(keyword)
      hasActiveSound == s.soundRef.loaded
      requestId == s.searchRequestIdRef + 1
      s1 == IF hasActiveSound THEN [s EXCEPT !.autoPlayRef = FALSE] ELSE resetPlayer(s)
      reg == registerRequest(s.requestTimestampsRef, now)
      task == [requestId |-> requestId, source |-> source, keyword |-> trimmedKeyword,
               page |-> page, activeTrack |-> currentSong(s),
               hasActiveTrack |-> HasCurrentSong(s), hasActiveSound |-> hasActiveSound,
               selectedBitrate |-> s.selectedBitrate,
               st |-> IF reg.thrown THEN "thrown" ELSE "pending"]
  IN IF trimmedKeyword = <<>> THEN s
     ELSE [s1 EXCEPT !.searchRequestIdRef = requestId, !.isSearching = TRUE,
                     !.lastSearch = [@ EXCEPT !.requestId = requestId, !.late = FALSE,
                                              !.st = "pending"],
                     !.errorMessage = "", !.requestTimestampsRef = reg.timestamps,
                     !.searching = @ \cup {task}]

\* a return to the catalog that leaves the player as it is
ShowLocalTracksKeepPlayer(s, source) ==
  [s EXCEPT !.searchRequestIdRef = @ + 1, !.isSearching = FALSE,
            !.lastSearch = [@ EXCEPT !.requestId = s.searchRequestIdRef + 1,
                                     !.late = FALSE, !.st = ""],
            !.allTracks = OfSource(s.localTracks, source),
            !.musicList = OfSource(s.localTracks, source),
            !.showingSearchResults = FALSE, !.errorMessage = "",
            !.searchPage = 1, !.searchPageInput = <<"1">>,
            !.searchHasMore = FALSE, !.lastSearchKeyword = null]

\* the branch of handleSearch and handleSourceChange that goes back to the
\* catalog of a source
ShowLocalTracks(s, source) ==
  resetPlayer([s EXCEPT !.searchRequestIdRef = @ + 1, !.isSearching = FALSE,
                        !.lastSearch = [@ EXCEPT !.requestId = s.searchRequestIdRef + 1,
                                                 !.late = FALSE, !.st = ""],
                        !.allTracks = OfSource(s.localTracks, source),
                        !.musicList = OfSource(s.localTracks, source),
                        !.showingSearchResults = FALSE, !.errorMessage = "",
                        !.searchPage = 1, !.searchPageInput = <<"1">>,
                        !.searchHasMore = FALSE, !.lastSearchKeyword = null])

\* handleSearch()
handleSearch(s) ==
  IF Trim(s.searchTerm) = <<>> THEN ShowLocalTracks(s, s.selectedSource)
  ELSE performSearch([s EXCEPT !.searchPageInput = <<"1">>], s.selectedSource,
                     Trim(s.searchTerm), 1)

\* handleSourceChange(source)
handleSourceChange(s, source) ==
  IF source = s.selectedSource THEN s
  ELSE IF Trim(s.searchTerm) # <<>>
       THEN performSearch([s EXCEPT !.selectedSource = source, !.searchPageInput = <<"1">>],
                          source, Trim(s.searchTerm), 1)
       ELSE ShowLocalTracks([s EXCEPT !.selectedSource = source], source)

(***************************************************************************)
(* The player: effects                                                     *)
(*                                                                         *)
(* After a render the effects whose dependencies differ from those of the  *)
(* render before run in the order of their declaration; what they set      *)
(* brings the next render, until a render changes nothing.                 *)
(***************************************************************************)
\* useEffect(() => setCoverUrl(currentSong?.cover ?? null), [currentSong?.cover])
CoverEffect(prev, cur, s) ==
  IF CoverDep(prev) = CoverDep(cur) THEN s
  ELSE [s EXCEPT !.coverUrl = Coalesce(CoverDep(cur), null)]

\* the effect of [currentSong?.url]: the cleanup of its last run, if that run
\* got as far as returning one, then its body
AudioEffect(prev, cur, s) ==
  IF UrlDep(prev) = UrlDep(cur) THEN s
  ELSE LET cleaned == IF Falsy(UrlDep(prev)) THEN s ELSE [s EXCEPT !.soundRef = NoSound]
       IN IF Falsy(UrlDep(cur)) THEN cleaned
          ELSE [cleaned EXCEPT
                  !.soundRef = IF cleaned.autoPlayRef
                               THEN [Howl(UrlDep(cur), Closure(cur)) EXCEPT
                                       !.state = "starting"]
                               ELSE Howl(UrlDep(cur), Closure(cur)),
                  !.autoPlayRef = FALSE]

\* a player in which no effect follows selectedBitrate
NoBitrateEffect(cur, s) == s

\* the effect that follows selectedBitrate: void playSong(currentSongIndex,
\* isPlaying) unless its guards return; the bound on the request ids stops it too
BitrateEffect(cur, s) ==
  IF \/ cur.selectedBitrate <= 0
     \/ cur.currentSongIndex < 0
     \/ cur.loadingTrackIndex # NullIndex
     \/ ~HasCurrentSong(cur)
     \/ (currentSong(cur).bitrate = cur.selectedBitrate /\ ~Falsy(currentSong(cur).url))
     \/ cur.playRequestIdRef >= MaxRequestIds
  THEN s
  ELSE playSong(s, cur.currentSongIndex, cur.isPlaying, TRUE)

\* useEffect(() => { playbackModeRef.current = playbackMode }, [playbackMode])
ModeEffect(prev, cur, s) ==
  IF prev.playbackMode = cur.playbackMode THEN s
  ELSE [s EXCEPT !.playbackModeRef = cur.playbackMode]

\* the effects that run after the render of cur, prev rendered before it
Effects(prev, cur) ==
  BitrateEffect(cur, ModeEffect(prev, cur,
                                AudioEffect(prev, cur, CoverEffect(prev, cur, cur))))

\* the state once the renders have come to rest (next is bound to a value,
\* which is computed once)
RECURSIVE Render(_, _)
Render(prev, cur) ==
  CHOOSE rested \in {IF next = cur THEN cur ELSE Render(cur, next) :
                        next \in {Effects(prev, cur)}} : TRUE

\* a step of the component: a handler has run and left the state set, the
\* renders that follow come to rest, and that is the next state
Step(set) ==
  \E prev \in {State} : \E cur \in {set} : \E rested \in {Render(prev, cur)} :
    Commit(rested)

(***************************************************************************)
(* The player: steps                                                       *)
(***************************************************************************)
\* a rejection waits for its catch to run: nothing else runs before it
MicrotaskPending ==
  \/ \E task \in playing : task.st = "thrown"
  \/ \E task \in searching : task.st = "thrown"
  \/ \E task \in informing : task.st = "thrown"

InitPlayer ==
  /\ now = 0 /\ ticks = 0 /\ fetched = <<>>
  /\ lastCall = [types |-> "", thrown |-> FALSE, before |-> <<>>, n |-> 0]
  /\ \E n \in {0, RATE_LIMIT_MAX_REQUESTS - 1} : requestTimestampsRef = Burst(n)
  /\ localTracks = INITIAL_TRACKS
  /\ allTracks = INITIAL_SOURCE_TRACKS
  /\ musicList = INITIAL_SOURCE_TRACKS
  /\ IdleUi /\ IdleResolve /\ IdleLyric /\ IdleSel /\ IdleApi

\* a click on an entry of the list: playSong(index)
PlaySong(index) ==
  /\ ~MicrotaskPending
  /\ index \in 0..(Len(musicList) - 1)
  /\ Step(playSong(State, index, TRUE, FALSE))

\* the select of the bitrate: setSelectedBitrate(bitrate)
SetSelectedBitrate(bitrate) ==
  /\ ~MicrotaskPending
  /\ bitrate # selectedBitrate
  /\ Step([State EXCEPT !.selectedBitrate = bitrate])

\* the search box: setSearchTerm(term)
SetSearchTerm(term) ==
  /\ ~MicrotaskPending
  /\ term # searchTerm
  /\ Step([State EXCEPT !.searchTerm = term])

\* the search button or Enter in the search box: handleSearch()
HandleSearch ==
  /\ ~MicrotaskPending
  /\ Step(handleSearch(State))

\* a button of a source: handleSourceChange(source)
HandleSourceChange(source) ==
  /\ ~MicrotaskPending
  /\ source # selectedSource
  /\ Step(handleSourceChange(State, source))

\* a playSong call taken up where it awaited, step being what the resolution
\* did on the response: it awaits the next response, or has returned, or thrown
PlayResumed(s, task, step) ==
  CASE step.st = "pending" ->
         [s EXCEPT !.requestTimestampsRef = step.timestamps,
                   !.playing = (@ \ {task}) \cup {[task EXCEPT !.call = step.call]}]
    [] step.st = "returned" ->
         PlayReturned(updateTrackInStates(
                        [s EXCEPT !.requestTimestampsRef = step.timestamps,
                                  !.playing = @ \ {task}],
                        step.track),
                      task, step.track)
    [] step.st = "thrown" ->
         PlayThrown([s EXCEPT !.requestTimestampsRef = step.timestamps,
                              !.playing = @ \ {task}],
                    task, step.error)

\* the response of the request a playSong call awaits arrives: the call runs
\* on to its next await or to its end
PlayResponse(task, resp) ==
  /\ ~MicrotaskPending
  /\ task \in playing /\ task.st = "pending"
  /\ Step(PlayResumed(State, task,
                      OnResponse(task.call, resp, requestTimestampsRef, now)))

\* the catch of a playSong call rejected before its first await
PlayRejected(task) ==
  /\ task \in playing /\ task.st = "thrown"
  /\ Step(PlayThrown([State EXCEPT !.playing = @ \ {task}], task, task.error))

\* the response of the search request of a performSearch call arrives
SearchResponse(task, resp) ==
  /\ ~MicrotaskPending
  /\ task \in searching /\ task.st = "pending"
  /\ Step(IF resp.ok
          THEN SearchReturned([State EXCEPT !.searching = @ \ {task}], task, resp.list)
          ELSE SearchThrown([State EXCEPT !.searching = @ \ {task}], task, ServiceMessage))

\* the catch of a performSearch call the rate limiter rejected
SearchRejected(task) ==
  /\ task \in searching /\ task.st = "thrown"
  /\ Step(SearchThrown([State EXCEPT !.searching = @ \ {task}],
                                       task, RateLimitMessage))

\* the play event of the Howl: onplay
OnPlay ==
  /\ ~MicrotaskPending
  /\ soundRef.loaded /\ soundRef.state = "starting"
  /\ Step([State EXCEPT !.soundRef.state = "playing", !.soundRef.seek = 1,
                         !.isPlaying = TRUE])

\* the progress timer, while the Howl plays: setCurrentTime, setProgress
ProgressTimer ==
  /\ ~MicrotaskPending
  /\ soundRef.loaded /\ soundRef.state = "playing" /\ progress = 0
  /\ Step([State EXCEPT !.progress = 1])

\* the remote API answers a request of a playSong call, OK or not
PlayAnswer == \E task \in playing : PlayResponse(task, OkResponse(task.call))
PlayFailure == \E task \in playing : PlayResponse(task, NotOkResponse)

\* the remote API answers the request of a performSearch call, OK or not
SearchAnswer ==
  \E task \in searching, list \in SearchLists :
    SearchResponse(task, Response(TRUE, list, undefined, undefined, undefined))
SearchFailure == \E task \in searching : SearchResponse(task, NotOkResponse)

\* the user plays and searches
Next ==
  \/ \E index \in 0..DEFAULT_SEARCH_COUNT :
       playRequestIdRef < MaxPlayRequests /\ PlaySong(index)
  \/ \E bitrate \in Bitrates :
       playRequestIdRef < MaxPlayRequests /\ SetSelectedBitrate(bitrate)
  \/ \E term \in SearchTerms : SetSearchTerm(term)
  \/ /\ playRequestIdRef < MaxPlayRequests /\ searchRequestIdRef < MaxSearchRequests
     /\ HandleSearch
  \/ \E source \in Sources :
       /\ playRequestIdRef < MaxPlayRequests /\ searchRequestIdRef < MaxSearchRequests
       /\ HandleSourceChange(source)
  \/ PlayAnswer \/ PlayFailure
  \/ SearchAnswer \/ SearchFailure
  \/ \E task \in playing : PlayRejected(task)
  \/ \E task \in searching : SearchRejected(task)
  \/ OnPlay \/ ProgressTimer

Spec == InitPlayer /\ [][Next]_vars

\* the user only plays
NextPlay ==
  \/ \E index \in 0..DEFAULT_SEARCH_COUNT : playRequestIdRef < MaxPlays /\ PlaySong(index)
  \/ \E bitrate \in Bitrates : playRequestIdRef < MaxPlays /\ SetSelectedBitrate(bitrate)
  \/ PlayAnswer \/ PlayFailure
  \/ \E task \in playing : PlayRejected(task)
  \/ OnPlay \/ ProgressTimer

SpecPlay == InitPlayer /\ [][NextPlay]_vars

\* the user plays and changes the bitrate, the rate limiter admits every
\* request and the remote API answers every request with OK; an answer that
\* can arrive does arrive, and an event the Howl owes is delivered
InitBitrate == InitPlayer /\ requestTimestampsRef = <<>>

NextBitrate ==
  \/ \E index \in 0..DEFAULT_SEARCH_COUNT : playRequestIdRef < MaxPlays /\ PlaySong(index)
  \/ \E bitrate \in Bitrates : playRequestIdRef < MaxPlays /\ SetSelectedBitrate(bitrate)
  \/ PlayAnswer
  \/ OnPlay \/ ProgressTimer

SpecBitrate ==
  /\ InitBitrate /\ [][NextBitrate]_vars
  /\ WF_vars(PlayAnswer) /\ WF_vars(OnPlay) /\ WF_vars(ProgressTimer)

\* playSong(index) called with any index, in the list or not; the call is
\* noted whatever it does
GuardIndexes == -1..(Len(INITIAL_SOURCE_TRACKS) + 1)

PlaySongAt(index) ==
  /\ ~MicrotaskPending
  /\ \E noted \in {[State EXCEPT
                       !.lastPlay.asked = [index |-> index, by |-> "click", mode |-> ""],
                       !.lastPlay.asks = 1 - @]} :
       Step(playSong(noted, index, TRUE, FALSE))

\* the playback modes in which onend calls playNext
PlaybackModes == {"order", "shuffle"}

\* what Math.random may make of candidate in playNext of the render of closure
Candidates(closure, mode) ==
  IF mode = "shuffle" /\ closure.currentSongIndex >= 0 /\ Len(closure.musicList) > 1
  THEN (0..(Len(closure.musicList) - 1)) \ {closure.currentSongIndex}
  ELSE {NullIndex}

\* the Howl plays to its end: onend, which calls the playNext of the render
\* that created the Howl; the call of playSong is noted
OnEnd(mode, candidate) ==
  /\ ~MicrotaskPending
  /\ soundRef.loaded /\ soundRef.state = "playing"
  /\ Len(soundRef.closure.musicList) > 0
  /\ candidate \in Candidates(soundRef.closure, mode)
  /\ \E noted \in {[State EXCEPT
                       !.soundRef.state = "stopped",
                       !.lastPlay.asked =
                         [index |-> NextIndexOf(soundRef.closure, mode, candidate),
                          by |-> "end", mode |-> mode],
                       !.lastPlay.asks = 1 - @]} :
       Step(playNextOf(soundRef.closure, noted, mode, candidate))

\* playSong is called with indexes in and out of the list, and by the end of
\* a track
NextGuard ==
  \/ \E index \in GuardIndexes : playRequestIdRef < MaxPlayRequests /\ PlaySongAt(index)
  \/ \E bitrate \in Bitrates : playRequestIdRef < MaxPlayRequests /\ SetSelectedBitrate(bitrate)
  \/ \E mode \in PlaybackModes, candidate \in GuardIndexes :
       playRequestIdRef < MaxPlays /\ OnEnd(mode, candidate)
  \/ PlayAnswer \/ PlayFailure
  \/ \E task \in playing : PlayRejected(task)
  \/ OnPlay \/ ProgressTimer

SpecGuard == InitPlayer /\ [][NextGuard]_vars

\* the user plays and searches, the remote API answers OK, and tracks play
\* to their end
NextEnd ==
  \/ \E index \in 0..DEFAULT_SEARCH_COUNT :
       playRequestIdRef < MaxPlayRequests /\ PlaySong(index)
  \/ \E term \in SearchTerms : SetSearchTerm(term)
  \/ /\ playRequestIdRef < MaxPlayRequests /\ searchRequestIdRef < MaxSearchRequests
     /\ HandleSearch
  \/ \E mode \in PlaybackModes, candidate \in 0..DEFAULT_SEARCH_COUNT :
       playRequestIdRef < MaxPlays /\ OnEnd(mode, candidate)
  \/ PlayAnswer \/ SearchAnswer
  \/ \E task \in playing : PlayRejected(task)
  \/ \E task \in searching : SearchRejected(task)
  \/ OnPlay \/ ProgressTimer

SpecEnd == InitPlayer /\ [][NextEnd]_vars

\* the user plays, searches with empty, blank and other search terms, and
\* changes the source; the remote API answers OK
CatalogTerms == SearchTerms \cup {<<" ">>}

NextCatalog ==
  \/ \E index \in 0..DEFAULT_SEARCH_COUNT :
       playRequestIdRef < MaxPlayRequests /\ PlaySong(index)
  \/ \E term \in CatalogTerms : SetSearchTerm(term)
  \/ /\ playRequestIdRef < MaxPlayRequests /\ searchRequestIdRef < MaxSearchRequests
     /\ HandleSearch
  \/ \E source \in Sources :
       /\ playRequestIdRef < MaxPlayRequests /\ searchRequestIdRef < MaxSearchRequests
       /\ HandleSourceChange(source)
  \/ PlayAnswer \/ SearchAnswer
  \/ \E task \in playing : PlayRejected(task)
  \/ \E task \in searching : SearchRejected(task)
  \/ OnPlay

SpecCatalog == InitPlayer /\ [][NextCatalog]_vars

(***************************************************************************)
(* The player: next, previous and the playback mode                        *)
(***************************************************************************)
\* the index playPrevious() of the render of closure passes to playSong
PreviousIndexOf(closure, mode, candidate) ==
  IF closure.currentSongIndex < 0 THEN 0
  ELSE IF mode = "shuffle"
       THEN IF Len(closure.musicList) = 1 THEN closure.currentSongIndex ELSE candidate
  ELSE IF closure.currentSongIndex <= 0 THEN Len(closure.musicList) - 1
  ELSE closure.currentSongIndex - 1

\* playPrevious() of the render of closure, called in state s
playPreviousOf(closure, s, mode, candidate) ==
  IF Len(closure.musicList) = 0 THEN s
  ELSE playSongOf(closure, s, PreviousIndexOf(closure, mode, candidate), TRUE, FALSE)

\* setPlaybackMode((m) => ...) of the mode button
NextMode(m) == IF m = "order" THEN "single" ELSE IF m = "single" THEN "shuffle" ELSE "order"

\* an onend that plays again without seeking
RestartWithoutSeek(s) == [s EXCEPT !.soundRef.state = "starting"]

\* onend in mode single: howl.seek(0); howl.play()
Restart(s) == [s EXCEPT !.soundRef.seek = 0, !.soundRef.state = "starting"]

\* the first entry of the catalog, ahead of those of LOCAL_TRACKS above
FIRST_LOCAL_TRACK ==
  [id |-> TrackIdOf("netease", "26060065"),
   name |-> <<"C", "o", "u", "n", "t", "i", "n", "g", " ", "S", "t", "a", "r", "s">>,
   artist |-> <<"O", "n", "e", "R", "e", "p", "u", "b", "l", "i", "c">>,
   source |-> "netease",
   keyword |-> <<"C", "o", "u", "n", "t", "i", "n", "g", " ", "S", "t", "a", "r", "s", " ",
                 "O", "n", "e", "R", "e", "p", "u", "b", "l", "i", "c">>,
   trackId |-> "26060065", picId |-> "109951170517214706", lyricId |-> "26060065",
   bitrate |-> 320]

\* a catalog of three tracks of the default source
InitNav ==
  /\ now = 0 /\ ticks = 0 /\ fetched = <<>> /\ requestTimestampsRef = <<>>
  /\ lastCall = [types |-> "", thrown |-> FALSE, before |-> <<>>, n |-> 0]
  /\ localTracks = <<createTrack(FIRST_LOCAL_TRACK)>> \o INITIAL_TRACKS
  /\ allTracks = OfSource(localTracks, DEFAULT_SOURCE)
  /\ musicList = OfSource(localTracks, DEFAULT_SOURCE)
  /\ IdleUi /\ IdleResolve /\ IdleLyric /\ IdleSel /\ IdleApi

\* the mode button
TogglePlaybackMode ==
  /\ ~MicrotaskPending
  /\ Step([State EXCEPT !.playbackMode = NextMode(@)])

\* the next button: playNext() of the last render; the call of playSong is
\* noted
PlayNext(candidate) ==
  /\ ~MicrotaskPending
  /\ candidate \in Candidates(Closure(State), playbackModeRef)
  /\ \E noted \in {[State EXCEPT
                       !.lastPlay.asked =
                         [index |-> IF Len(musicList) = 0 THEN NullIndex
                                    ELSE NextIndexOf(Closure(State), playbackModeRef,
                                                     candidate),
                          by |-> "next", mode |-> playbackModeRef],
                       !.lastPlay.asks = 1 - @]} :
       Step(playNextOf(Closure(State), noted, playbackModeRef, candidate))

\* the previous button: playPrevious() of the last render
PlayPrevious(candidate) ==
  /\ ~MicrotaskPending
  /\ candidate \in Candidates(Closure(State), playbackModeRef)
  /\ \E noted \in {[State EXCEPT
                       !.lastPlay.asked =
                         [index |-> IF Len(musicList) = 0 THEN NullIndex
                                    ELSE PreviousIndexOf(Closure(State), playbackModeRef,
                                                         candidate),
                          by |-> "previous", mode |-> playbackModeRef],
                       !.lastPlay.asks = 1 - @]} :
       Step(playPreviousOf(Closure(State), noted, playbackModeRef, candidate))

\* the Howl plays to its end while playbackModeRef.current is single
OnEndSingle ==
  /\ ~MicrotaskPending
  /\ soundRef.loaded /\ soundRef.state = "playing"
  /\ playbackModeRef = "single"
  /\ \E noted \in {[State EXCEPT
                       !.lastPlay.asked = [index |-> NullIndex, by |-> "end",
                                           mode |-> playbackModeRef],
                       !.lastPlay.asks = 1 - @]} :
       Step(Restart(noted))

\* the Howl plays to its end in another mode
OnEndNext(candidate) ==
  /\ playbackModeRef # "single"
  /\ OnEnd(playbackModeRef, candidate)

\* the user plays, steps through the list with the next and previous
\* buttons, changes the mode and searches; the rate limiter admits every
\* request and the remote API answers OK
NextNav ==
  \/ \E index \in 0..DEFAULT_SEARCH_COUNT :
       playRequestIdRef < MaxPlayRequests /\ PlaySong(index)
  \/ TogglePlaybackMode
  \/ \E candidate \in GuardIndexes : playRequestIdRef < MaxPlays /\ PlayNext(candidate)
  \/ \E candidate \in GuardIndexes : playRequestIdRef < MaxPlays /\ PlayPrevious(candidate)
  \/ \E term \in SearchTerms : SetSearchTerm(term)
  \/ /\ playRequestIdRef < MaxPlayRequests /\ searchRequestIdRef < 1
     /\ HandleSearch
  \/ PlayAnswer \/ SearchAnswer

SpecNav == InitNav /\ [][NextNav]_vars

\* the user plays and changes the mode, and tracks play to their end; the
\* rate limiter admits every request and the remote API answers OK
NextPlaybackMode ==
  \/ \E index \in 0..DEFAULT_SEARCH_COUNT :
       playRequestIdRef < MaxPlayRequests /\ PlaySong(index)
  \/ TogglePlaybackMode
  \/ PlayAnswer
  \/ OnPlay
  \/ OnEndSingle
  \/ \E candidate \in GuardIndexes : playRequestIdRef < MaxPlays /\ OnEndNext(candidate)

SpecMode == InitBitrate /\ [][NextPlaybackMode]_vars

(***************************************************************************)
(* The player: the pages of a search                                       *)
(***************************************************************************)
MaxPageRequests == 3

\* Number.parseInt(s, 10): white space, then a sign, then digits; NaN when no
\* digit follows; a number is a record, so that NaN is one too
NaN == [nan |-> TRUE, value |-> 0]
Finite(n) == [nan |-> FALSE, value |-> n]

RECURSIVE LeadingDigits(_)
LeadingDigits(s) ==
  IF s = <<>> \/ Head(s) \notin Digits THEN <<>>
  ELSE <<Head(s)>> \o LeadingDigits(Tail(s))

NumberParseInt(s) ==
  LET t == TrimStart(s)
      signed == t # <<>> /\ Head(t) \in {"-", "+"}
      digits == LeadingDigits(IF signed THEN Tail(t) ELSE t)
  IN IF digits = <<>> THEN NaN
     ELSE IF signed /\ Head(t) = "-" THEN Finite(0 - ParseInt(digits))
     ELSE Finite(ParseInt(digits))

\* Math.max(a, b)
Max(a, b) == IF a >= b THEN a ELSE b

\* a previous-page handler that goes back from any page
handleSearchPagePrevAnyPage(s) ==
  IF Falsy(s.lastSearchKeyword) THEN s
  ELSE performSearch(s, s.selectedSource, s.lastSearchKeyword, s.searchPage - 1)

\* handleSearchPagePrev()
handleSearchPagePrev(s) ==
  IF Falsy(s.lastSearchKeyword) THEN s
  ELSE IF s.searchPage <= 1 THEN s
  ELSE performSearch(s, s.selectedSource, s.lastSearchKeyword, Max(1, s.searchPage - 1))

\* handleSearchPageNext()
handleSearchPageNext(s) ==
  IF Falsy(s.lastSearchKeyword) THEN s
  ELSE IF ~s.searchHasMore THEN s
  ELSE performSearch(s, s.selectedSource, s.lastSearchKeyword, s.searchPage + 1)

\* handleSearchPageSubmit()
handleSearchPageSubmit(s) ==
  LET pageValue == NumberParseInt(s.searchPageInput)
  IN IF Falsy(s.lastSearchKeyword) THEN s
     ELSE IF pageValue.nan THEN s
     ELSE IF pageValue.value <= 0 THEN s
     ELSE performSearch(s, s.selectedSource, s.lastSearchKeyword, pageValue.value)

\* what is typed into the page input
PageInputs == {<<>>, <<"0">>, <<"-", "1">>, <<"2">>, <<"1", "e", "1">>}

\* result lists of one item less than a page, of a page, and of one more
PageIds == <<"1", "2", "3", "4", "5", "6", "7", "8", "9">>
ResultPage(n) == [k \in 1..n |-> SearchItem(PageIds[k], <<"k">>, <<>>, "", "", "")]
PageLists ==
  {ResultPage(n) : n \in {DEFAULT_SEARCH_COUNT - 1, DEFAULT_SEARCH_COUNT,
                          DEFAULT_SEARCH_COUNT + 1}}

\* the state with a call of a handler of the page controls noted
PageAsked(s, by, page) ==
  [s EXCEPT !.lastSearch.asked = [by |-> by, page |-> page], !.lastSearch.asks = 1 - @]

\* the previous-page button
HandleSearchPagePrev ==
  /\ ~MicrotaskPending
  /\ Step(handleSearchPagePrev(PageAsked(State, "prev", searchPage - 1)))

\* the next-page button
HandleSearchPageNext ==
  /\ ~MicrotaskPending
  /\ Step(handleSearchPageNext(PageAsked(State, "next", searchPage + 1)))

\* the page input: setSearchPageInput(e.target.value)
SetSearchPageInput(input) ==
  /\ ~MicrotaskPending
  /\ input # searchPageInput
  /\ Step([State EXCEPT !.searchPageInput = input])

\* the jump button, or Enter in the page input
HandleSearchPageSubmit ==
  /\ ~MicrotaskPending
  /\ \E page \in {NumberParseInt(searchPageInput)} :
       Step(handleSearchPageSubmit(PageAsked(State, "submit", page.value)))

\* the remote API answers a search with a list around the size of a page
PageAnswer ==
  \E task \in searching, list \in PageLists :
    SearchResponse(task, Response(TRUE, list, undefined, undefined, undefined))

\* the user plays a track, searches and goes through the pages; the handlers
\* of the page controls are called in every state
NextPage ==
  \/ playRequestIdRef < 1 /\ PlaySong(0)
  \/ PlayAnswer
  \/ \E term \in SearchTerms : SetSearchTerm(term)
  \/ searchRequestIdRef < MaxPageRequests /\ HandleSearch
  \/ searchRequestIdRef < MaxPageRequests /\ HandleSearchPagePrev
  \/ searchRequestIdRef < MaxPageRequests /\ HandleSearchPageNext
  \/ \E input \in PageInputs : SetSearchPageInput(input)
  \/ searchRequestIdRef < MaxPageRequests /\ HandleSearchPageSubmit
  \/ PageAnswer \/ SearchFailure
  \/ \E task \in searching : SearchRejected(task)

SpecPage == InitPlayer /\ [][NextPage]_vars

(***************************************************************************)
(* The info modal                                                          *)
(***************************************************************************)
MaxInfoRequests == 3

\* handleCloseInfoModal()
handleCloseInfoModal(s) ==
  [s EXCEPT !.infoModalVisible = FALSE, !.infoModalTrack = NoTrack,
            !.infoModalLoading = FALSE, !.infoModalError = ""]

\* a handleShowTrackInfo call suspended in ensureTrackResolved: its request
\* id, and the step the resolution is at
InfoTask(requestId, step) ==
  [requestId |-> requestId, st |-> step.st, call |-> step.call, error |-> step.error]

\* a handleShowTrackInfo call that was superseded has ended
InfoDiscarded(s) == [s EXCEPT !.lastInfo.late = TRUE]

\* handleShowTrackInfo without the tests of its request id
InfoReturnedUnchecked(s, task, resolved) ==
  IF s.infoRequestIdRef # task.requestId
  THEN [InfoDiscarded(s) EXCEPT !.infoModalTrack = resolved, !.infoModalLoading = FALSE]
  ELSE [s EXCEPT !.infoModalTrack = resolved, !.infoModalLoading = FALSE,
                 !.lastInfo.st = "returned"]

\* handleShowTrackInfo after its await, resolved in hand, and its finally
InfoReturned(s, task, resolved) ==
  IF s.infoRequestIdRef # task.requestId THEN InfoDiscarded(s)
  ELSE [s EXCEPT !.infoModalTrack = resolved, !.infoModalLoading = FALSE,
                 !.lastInfo.st = "returned"]

\* the catch of handleShowTrackInfo, and its finally
InfoThrown(s, task, error) ==
  IF s.infoRequestIdRef # task.requestId THEN InfoDiscarded(s)
  ELSE [s EXCEPT !.infoModalError = error, !.infoModalLoading = FALSE,
                 !.lastInfo.st = "thrown"]

\* handleShowTrackInfo(track) up to its await, or to its end when the track
\* is resolved already
handleShowTrackInfo(s, track) ==
  LET requestId == s.infoRequestIdRef + 1
      desiredBitrate == IF track.bitrate = 0 THEN s.selectedBitrate ELSE track.bitrate
      step == StartResolve([track EXCEPT !.bitrate = desiredBitrate], desiredBitrate,
                           s.requestTimestampsRef, now)
      task == InfoTask(requestId, step)
      s1 == [s EXCEPT !.infoRequestIdRef = requestId, !.infoModalVisible = TRUE,
                      !.infoModalLoading = TRUE, !.infoModalError = "",
                      !.infoModalTrack = track,
                      !.lastInfo = [requestId |-> requestId, late |-> FALSE,
                                    st |-> "pending"]]
  IN IF step.st = "returned" THEN InfoReturned(s1, task, step.track)
     ELSE [s1 EXCEPT !.requestTimestampsRef = step.timestamps,
                     !.informing = @ \cup {task}]

\* handleRetryInfo()
handleRetryInfo(s) ==
  IF s.infoModalTrack # NoTrack THEN handleShowTrackInfo(s, s.infoModalTrack) ELSE s

\* the info button of an entry of the list: handleShowTrackInfo(song)
HandleShowTrackInfo(index) ==
  /\ ~MicrotaskPending
  /\ index \in 0..(Len(musicList) - 1)
  /\ Step(handleShowTrackInfo(State, musicList[index + 1]))

\* the retry button, which the modal shows with the error
HandleRetryInfo ==
  /\ ~MicrotaskPending
  /\ infoModalVisible /\ ~infoModalLoading /\ infoModalError # ""
  /\ Step(handleRetryInfo(State))

\* the close button of the modal, or a click on its backdrop
HandleCloseInfoModal ==
  /\ ~MicrotaskPending
  /\ infoModalVisible
  /\ Step(handleCloseInfoModal(State))

\* a handleShowTrackInfo call taken up where it awaited
InfoResumed(s, task, step) ==
  CASE step.st = "pending" ->
         [s EXCEPT !.requestTimestampsRef = step.timestamps,
                   !.informing = (@ \ {task}) \cup {[task EXCEPT !.call = step.call]}]
    [] step.st = "returned" ->
         InfoReturned(updateTrackInStates(
                        [s EXCEPT !.requestTimestampsRef = step.timestamps,
                                  !.informing = @ \ {task}],
                        step.track),
                      task, step.track)
    [] step.st = "thrown" ->
         InfoThrown([s EXCEPT !.requestTimestampsRef = step.timestamps,
                              !.informing = @ \ {task}],
                    task, step.error)

\* the response of the request a handleShowTrackInfo call awaits arrives
InfoResponse(task, resp) ==
  /\ ~MicrotaskPending
  /\ task \in informing /\ task.st = "pending"
  /\ Step(InfoResumed(State, task,
                      OnResponse(task.call, resp, requestTimestampsRef, now)))

\* the catch of a handleShowTrackInfo call rejected before its first await
InfoRejected(task) ==
  /\ task \in informing /\ task.st = "thrown"
  /\ Step(InfoThrown([State EXCEPT !.informing = @ \ {task}], task, task.error))

\* the remote API answers a request of a handleShowTrackInfo call, OK or not
InfoAnswer == \E task \in informing : InfoResponse(task, OkResponse(task.call))
InfoFailure == \E task \in informing : InfoResponse(task, NotOkResponse)

\* the user opens, retries and closes the info modal
NextInfo ==
  \/ \E index \in 0..DEFAULT_SEARCH_COUNT :
       infoRequestIdRef < MaxInfoRequests /\ HandleShowTrackInfo(index)
  \/ infoRequestIdRef < MaxInfoRequests /\ HandleRetryInfo
  \/ HandleCloseInfoModal
  \/ InfoAnswer \/ InfoFailure
  \/ \E task \in informing : InfoRejected(task)

SpecInfo == InitPlayer /\ [][NextInfo]_vars

(***************************************************************************)
(* The API route                                                           *)
(***************************************************************************)
\* the keys of a LocalTrack in the order the catalog writes them
LocalTrackKeys ==
  <<"id", "name", "artist", "album", "duration", "source", "keyword", "trackId", "picId",
    "lyricId", "bitrate">>

\* JSON.stringify of an object: its own keys in order, each with its value
JsonObject(object) ==
  LET Own(key) == key \in DOMAIN object
      keys == SelectSeq(LocalTrackKeys, Own)
  IN [k \in 1..Len(keys) |-> <<keys[k], object[keys[k]]>>]

\* res.json(array): the array of the objects' JSON
JsonArray(array) == [k \in 1..Len(array) |-> JsonObject(array[k])]

\* JSON.parse of the JSON of an object, and of an array of objects
ParseObject(json) ==
  [key \in {json[k][1] : k \in 1..Len(json)} |->
     LET k == CHOOSE k \in 1..Len(json) : json[k][1] = key IN json[k][2]]
ParseArray(json) == [k \in 1..Len(json) |-> ParseObject(json[k])]

\* a route that serves GET only
handlerGetOnly(req, catalog) ==
  IF req.method = "GET" THEN [status |-> 200, json |-> JsonArray(catalog), catalog |-> catalog]
  ELSE [status |-> 405, json |-> <<>>, catalog |-> catalog]

\* handler(req, res): res.status(200).json(LOCAL_TRACKS)
handler(req, catalog) ==
  [status |-> 200, json |-> JsonArray(catalog), catalog |-> catalog]

ApiMethods == {"GET", "HEAD", "POST", "PUT", "DELETE"}
ApiQueries ==
  {<<>>, <<"i", "d", "=", "1">>, <<"s", "o", "u", "r", "c", "e", "=", "k", "u", "w", "o">>,
   <<"l", "i", "m", "i", "t", "=", "0">>, <<"?">>}
ApiBodies ==
  {<<>>, <<"[", "]">>, <<"{", "}">>, <<"n", "u", "l", "l">>, <<"x">>}

InitApi ==
  /\ served = LOCAL_TRACKS /\ apiExchange = NoExchange
  /\ IdleRate /\ IdleLyric /\ IdleSel /\ IdleApp

\* a request reaches the route
Handler(method, query, body) ==
  LET req == [method |-> method, query |-> query, body |-> body]
      res == handler(req, served)
  IN /\ served' = res.catalog
     /\ apiExchange' = [method |-> method, query |-> query, body |-> body,
                        status |-> res.status, json |-> res.json]
     /\ UNCHANGED <<rateVars, lyricVars, selVars, appVars>>

NextApi ==
  \E method \in ApiMethods, query \in ApiQueries, body \in ApiBodies :
    Handler(method, query, body)

SpecApi == InitApi /\ [][NextApi]_vars

(***************************************************************************)
(* Claims about the rate limiter                                           *)
(***************************************************************************)
\* the requests handed to fetch in the closed interval [from, from + window]
FetchedWithin(from) ==
  {k \in DOMAIN fetched : from <= fetched[k].at /\ fetched[k].at <= from + RATE_LIMIT_WINDOW_MS}

\* C3: every closed interval of 5 minutes holds at most 60 of the requests
\* handed to fetch, whatever their type, and requestTimestampsRef never holds
\* more than 60 timestamps.  (An interval that holds requests can be moved to
\* start at its first request without losing any.)
C3_RateLimit ==
  /\ Len(requestTimestampsRef) <= RATE_LIMIT_MAX_REQUESTS
  /\ \A k \in DOMAIN fetched :
       Cardinality(FetchedWithin(fetched[k].at)) <= RATE_LIMIT_MAX_REQUESTS

\* a call was rejected at a later time with 60 requests of several types in
\* the window
C3_Witness ==
  /\ lastCall.thrown
  /\ now > 0
  /\ Len(requestTimestampsRef) = RATE_LIMIT_MAX_REQUESTS
  /\ Cardinality({fetched[k].types : k \in DOMAIN fetched}) > 1
  /\ \E k \in DOMAIN fetched : fetched[k].at > 0

\* the timestamps of a list that count at time t
Counting(timestamps, t) ==
  {k \in DOMAIN timestamps : timestamps[k] >= t - RATE_LIMIT_WINDOW_MS}

\* C10: a call made when 60 recorded timestamps t satisfy t >= now - 5 min is
\* rejected, hands nothing to fetch and records no timestamp: the timestamps
\* that count are the same ones after the call.
C10_RejectionKeepsBudget ==
  [][(lastCall'.n = lastCall.n + 1
        /\ Cardinality(Counting(requestTimestampsRef, now)) >= RATE_LIMIT_MAX_REQUESTS)
     => /\ lastCall'.thrown
        /\ fetched' = fetched
        /\ Len(requestTimestampsRef') <= Len(requestTimestampsRef)
        /\ \A k \in DOMAIN requestTimestampsRef' : requestTimestampsRef'[k] # now
             \/ now \in Range(requestTimestampsRef)
        /\ Cardinality(Counting(requestTimestampsRef', now))
             = Cardinality(Counting(requestTimestampsRef, now))]_vars

\* a call was rejected after the clock had moved, on a list of 60 timestamps
C10_Witness ==
  /\ lastCall.thrown
  /\ ticks > 0
  /\ Len(lastCall.before) = RATE_LIMIT_MAX_REQUESTS
  /\ requestTimestampsRef = lastCall.before

(***************************************************************************)
(* Claim about parseLyricLines                                             *)
(***************************************************************************)
\* the fraction digits of a tag as milliseconds: '5' is 500, '05' is 50
FractionMillis(frac) ==
  CASE Len(frac) = 0 -> 0
    [] Len(frac) = 1 -> 100 * ParseInt(frac)
    [] Len(frac) = 2 -> 10 * ParseInt(frac)
    [] Len(frac) = 3 -> ParseInt(frac)

TagMillis(tag) == 1000 * (60 * ParseInt(tag.mm) + ParseInt(tag.ss)) + FractionMillis(tag.frac)

\* the entries a line of a document contributes
Contribution(line) ==
  LET text == Trim(line.text)
      tags == line.tags \o line.after
  IN IF text = <<>> THEN {}
     ELSE IF tags = <<>> THEN {[time |-> POSITIVE_INFINITY, text |-> text]}
     ELSE {[time |-> TagMillis(tags[k]), text |-> text] : k \in DOMAIN tags}

Contributions(doc) == UNION {Contribution(doc[k]) : k \in DOMAIN doc}

\* C9: parseLyricLines returns the empty list for null, undefined and '';
\* otherwise its result is sorted by time, holds no empty text and no two
\* adjacent equal entries, and holds exactly the entries the lines contribute:
\* one per tag of a line with text, at 60*mm + ss + fraction, and one at
\* +infinity for a line with text and no tag, after every timed entry.
C9_ParseLyricLines ==
  lyricDone =>
    /\ Falsy(lyricInput) => lyricLines = <<>>
    /\ \A i, j \in DOMAIN lyricLines : i < j => lyricLines[i].time <= lyricLines[j].time
    /\ \A i \in DOMAIN lyricLines : lyricLines[i].text # <<>>
    /\ \A i \in DOMAIN lyricLines : i > 1 => lyricLines[i] # lyricLines[i - 1]
    /\ Range(lyricLines) = Contributions(lyricDoc)
    /\ \A i, j \in DOMAIN lyricLines :
         (lyricLines[i].time = POSITIVE_INFINITY /\ lyricLines[j].time < POSITIVE_INFINITY)
           => j < i

\* a parsed document with an untimed line, a '.5' tag and a '.05' tag
C9_Witness ==
  /\ lyricDone
  /\ \E i, j, k \in DOMAIN lyricLines :
       /\ lyricLines[i].time = 1500
       /\ lyricLines[j].time = 62050
       /\ lyricLines[k].time = POSITIVE_INFINITY

(***************************************************************************)
(* Claim about selectBestSearchResult                                      *)
(***************************************************************************)
\* the score of the claim
ClaimScore(item, target) ==
  LET targetName == normalizeText(target.name)
      itemName == normalizeText(item.name)
      shared == Range(collectArtistTokens(item.artist))
                  \cap Range(collectArtistTokens(ArtistArray(target.artist)))
  IN (IF targetName = <<>> THEN 0
      ELSE IF itemName = targetName THEN 4
      ELSE IF Includes(itemName, targetName) THEN 2 ELSE 0)
     + (IF shared # {} THEN 4 ELSE 0)
     + (IF item.source = target.source THEN 1 ELSE 0)

\* C8: selectBestSearchResult returns null exactly for the empty list, and
\* otherwise the first item of maximal score.
C8_BestMatch ==
  selDone =>
    /\ selBest = -1 <=> selResults = <<>>
    /\ selResults # <<>> =>
         /\ selBest \in 0..(Len(selResults) - 1)
         /\ \A j \in DOMAIN selResults :
              LET mine == ClaimScore(selResults[j], selTarget)
                  best == ClaimScore(selResults[selBest + 1], selTarget)
              IN mine <= best /\ (mine = best => j >= selBest + 1)

\* two different items tie at the full score of 9 and the first is returned
C8_Witness ==
  /\ selDone
  /\ Len(selResults) = 2
  /\ selBest = 0
  /\ selResults[1] # selResults[2]
  /\ ClaimScore(selResults[1], selTarget) = 9
  /\ ClaimScore(selResults[2], selTarget) = 9

(***************************************************************************)
(* Claims about ensureTrackResolved                                        *)
(***************************************************************************)
\* the types of the requests the call handed to fetch, in order
SentTypes == [k \in 1..Len(fetched) |-> fetched[k].types]

\* the responses of one type the call received
GotOf(types) == {resolveCall.got[k].resp : k \in {j \in 1..Len(resolveCall.got) :
                                                   resolveCall.got[j].types = types}}

\* the call returned its argument as it was: url present at the desired bitrate
Cached == ~Falsy(resolveCall.track.url)
            /\ resolveCall.track.bitrate = resolveCall.desiredBitrate

\* a and b are the same value, null and undefined both standing for none
SameValue(a, b) == Coalesce(a, null) = Coalesce(b, null)

\* list is before with every entry of the id of track replaced by track
ReplacedIn(list, before, track) ==
  /\ Len(list) = Len(before)
  /\ \A k \in 1..Len(before) :
       list[k] = IF before[k].id = track.id THEN track ELSE before[k]

\* C4: when ensureTrackResolved(track, b) succeeds through the remote API, the
\* returned track has a non-empty url, the remote url with "&" wherever it had
\* "&amp;", bitrate b, a defined trackId and the id and source of the input;
\* it stands in localTracks, allTracks and musicList wherever an entry had its
\* id, the other entries as they were; its cover is the remote one when the
\* remote returned a non-blank one and the input's otherwise, and so are its
\* lyric and tLyric.
C4_ResolvedTrack ==
  LET in == resolveCall.track
      out == resolveCall.result
  IN (resolveCall.st = "returned" /\ ~Cached) =>
       /\ out.url \notin {undefined, null, <<>>}
       /\ out.url = Join(resolveCall.urlParts, <<"&">>)
       /\ out.bitrate = resolveCall.desiredBitrate
       /\ out.trackId # ""
       /\ out.id = in.id /\ out.source = in.source
       /\ ReplacedIn(localTracks, resolveCall.before[1], out)
       /\ ReplacedIn(allTracks, resolveCall.before[2], out)
       /\ ReplacedIn(musicList, resolveCall.before[3], out)
       /\ IF \E r \in GotOf("pic") : r.ok /\ NonBlankString(r.url)
          THEN \A r \in GotOf("pic") : out.cover = r.url
          ELSE SameValue(out.cover, in.cover)
       /\ IF \E r \in GotOf("lyric") : r.ok /\ NonBlankString(r.lyric)
          THEN \A r \in GotOf("lyric") : out.lyric = r.lyric
          ELSE SameValue(out.lyric, in.lyric)
       /\ IF \E r \in GotOf("lyric") : r.ok /\ NonBlankString(r.tlyric)
          THEN \A r \in GotOf("lyric") : out.tLyric = r.tlyric
          ELSE SameValue(out.tLyric, in.tLyric)

\* a track found by search is resolved from a url with two "&amp;", with the
\* remote cover and translation and no remote lyric
C4_Witness ==
  /\ resolveCall.st = "returned"
  /\ SentTypes = <<"search", "url", "pic", "lyric">>
  /\ Len(resolveCall.urlParts) = 3
  /\ resolveCall.result.url = <<"u", "&", "v", "&", "w">>
  /\ resolveCall.result.cover = <<"c", "1">>
  /\ resolveCall.result.lyric = null
  /\ resolveCall.result.tLyric = <<"t", "1">>
  /\ musicList[1] = resolveCall.result /\ musicList[2] = Bystander

\* the lists are as they were before the call
ListsUntouched == <<localTracks, allTracks, musicList>> = resolveCall.before

\* the call failed, and the last request it sent, if any, was of these types
FailedAfter(types) ==
  /\ resolveCall.st = "thrown"
  /\ ListsUntouched
  /\ SentTypes # <<>> /\ SentTypes[Len(SentTypes)] = types

\* C5: ensureTrackResolved fails with an error, writes no track into the lists
\* and sends no later request when the track has no trackId and an empty
\* keyword (no request at all), when the search returns no result (no url
\* request), when the search or url request is rejected by the rate limiter or
\* answered non-OK, and when the url response carries no url (no pic or lyric
\* request); a call that returns has sent the url request, and the search
\* request when the track had no trackId.
C5_ResolutionFailures ==
  LET in == resolveCall.track
      done == resolveCall.st \in {"returned", "thrown"}
  IN /\ (resolveCall.st # "idle" /\ in.trackId = "" /\ KeywordOf(in) = <<>>) =>
          (resolveCall.st = "thrown" /\ ListsUntouched /\ fetched = <<>>)
     /\ \A r \in GotOf("search") :
          /\ (r.ok /\ r.list = <<>>) => FailedAfter("search")
          /\ ~r.ok => FailedAfter("search")
     /\ \A r \in GotOf("url") :
          /\ ~r.ok => FailedAfter("url")
          /\ (r.ok /\ Falsy(r.url)) => FailedAfter("url")
     /\ (resolveCall.st = "thrown" /\ resolveCall.error = RateLimitMessage) =>
          /\ ListsUntouched
          /\ Len(requestTimestampsRef) >= RATE_LIMIT_MAX_REQUESTS
          /\ SentTypes \in {<<>>, <<"search">>}
     /\ (resolveCall.st = "returned" /\ ~Cached) =>
          /\ \E k \in 1..Len(SentTypes) : SentTypes[k] = "url"
          /\ in.trackId = "" => SentTypes[1] = "search"
     /\ Len(requestTimestampsRef) <= RATE_LIMIT_MAX_REQUESTS
     /\ resolveCall.st = "thrown" =>
          /\ ListsUntouched
          /\ \A k \in 1..Len(SentTypes) : SentTypes[k] \in {"search", "url"}

\* the url request of a track found by search is rejected by the rate limiter
C5_Witness ==
  /\ resolveCall.st = "thrown"
  /\ resolveCall.error = RateLimitMessage
  /\ SentTypes = <<"search">>
  /\ ListsUntouched

(***************************************************************************)
(* Claims about the player                                                 *)
(***************************************************************************)
\* a playSong call that is no longer the latest ends in this step
StalePlayEnds ==
  \E task \in playing :
    /\ task.requestId # playRequestIdRef
    /\ \A other \in playing' : other.requestId # task.requestId

\* C1: the end of a playSong call that a later playSong or resetPlayer has
\* superseded, its resolution succeeding or failing, changes none of
\* currentSongIndex, the loaded sound, the progress, coverUrl, errorMessage
\* and loadingTrackIndex.
C1_StalePlaySuppressed ==
  [][StalePlayEnds =>
       UNCHANGED <<currentSongIndex, soundRef, progress, coverUrl, errorMessage,
                   loadingTrackIndex>>]_vars

\* a superseded playSong call has ended while the latest one, for another
\* index than the current track, still loads, and a sound is loaded
C1_Witness ==
  /\ lastPlay.late /\ lastPlay.st = "pending"
  /\ currentSongIndex >= 0 /\ currentSongIndex # lastPlay.index /\ soundRef.loaded

\* C7: when the playSong call that was issued last has returned and no call
\* awaits a response any more, currentSongIndex is the index of that call and
\* loadingTrackIndex is null, in whatever order the responses arrived.
C7_LatestSelectionWins ==
  (playing = {} /\ lastPlay.st = "returned" /\ lastPlay.requestId = playRequestIdRef)
    => (currentSongIndex = lastPlay.index /\ loadingTrackIndex = NullIndex)

\* the last of several calls has returned and a call it superseded, for
\* another index, has ended after it was issued
C7_Witness ==
  /\ playing = {} /\ lastPlay.st = "returned" /\ lastPlay.requestId = playRequestIdRef
  /\ lastPlay.requestId >= 2 /\ ~lastPlay.auto /\ lastPlay.late
  /\ currentSongIndex = lastPlay.index /\ loadingTrackIndex = NullIndex
  /\ \E k \in 1..Len(musicList) : k - 1 # lastPlay.index /\ ~Falsy(musicList[k].url)

\* a performSearch call that is no longer the latest ends in this step
StaleSearchEnds ==
  \E task \in searching : task.requestId # searchRequestIdRef /\ task \notin searching'

\* C2: the end of a performSearch call that a later search, an empty-keyword
\* submit or a source change has superseded writes neither results nor an
\* error: allTracks, musicList, currentSongIndex, searchPage, searchPageInput,
\* searchHasMore, lastSearchKeyword, showingSearchResults and errorMessage
\* stay as they are.
C2_StaleSearchDiscarded ==
  [][StaleSearchEnds =>
       UNCHANGED <<allTracks, musicList, currentSongIndex, searchPage, searchPageInput,
                   searchHasMore, lastSearchKeyword, showingSearchResults,
                   errorMessage>>]_vars

\* a superseded search has ended after the latest was issued, and what is
\* shown is what the latest left
C2_Witness ==
  /\ lastSearch.late /\ lastSearch.requestId = searchRequestIdRef
  /\ searching = {} /\ showingSearchResults /\ Len(allTracks) > 0

\* the current track is resolved at the selected bitrate and nothing loads
BitrateSettled ==
  /\ currentSongIndex >= 0 /\ currentSongIndex < Len(musicList)
  /\ loadingTrackIndex = NullIndex
  /\ ~Falsy(musicList[currentSongIndex + 1].url)
  /\ musicList[currentSongIndex + 1].bitrate = selectedBitrate

\* a playSong call of the bitrate effect, the latest, ends in this step
EffectPlayEnds ==
  \E task \in playing :
    /\ task.auto /\ task.requestId = playRequestIdRef
    /\ \A other \in playing' : other.requestId # task.requestId

C11_RouteServesCatalog ==
  /\ served = LOCAL_TRACKS
  /\ apiExchange # NoExchange =>
       /\ apiExchange.status = 200
       /\ ParseArray(apiExchange.json) = LOCAL_TRACKS

\* a POST with a query and a body has been answered
C11_Witness ==
  /\ apiExchange.method = "POST" /\ apiExchange.query # <<>> /\ apiExchange.body # <<>>
  /\ apiExchange.status = 200 /\ Len(apiExchange.json) = Len(LOCAL_TRACKS)

(***************************************************************************)
(* Claims about the player and the list it plays from                      *)
(***************************************************************************)
\* the latest playSong call, task, returns in this step
LatestPlayReturns(task) ==
  /\ task \in playing /\ task.requestId = playRequestIdRef
  /\ lastPlay'.requestId = task.requestId /\ lastPlay'.st = "returned"

\* C12: when the latest playSong call returns and sets currentSongIndex, the
\* track at that position of musicList has the id of the track the call
\* resolved, also when a search has replaced musicList in the meantime.
C12_IndexNamesResolvedTrack ==
  [][\A task \in playing :
       LatestPlayReturns(task) =>
         /\ currentSongIndex' = task.index
         /\ task.index < Len(musicList')
         /\ musicList'[task.index + 1].id = task.call.track.id]_vars

\* C13: currentSongIndex is -1 or an index of musicList.
C13_IndexInList ==
  currentSongIndex = -1 \/ (0 <= currentSongIndex /\ currentSongIndex < Len(musicList))

\* the latest performSearch call, task, issued with a sound loaded for an
\* active track, ends in this step with a result list
ActiveSearchReturns(task) ==
  /\ task \in searching /\ task \notin searching'
  /\ task.requestId = searchRequestIdRef
  /\ task.hasActiveSound /\ task.hasActiveTrack
  /\ errorMessage' \notin {ServiceMessage, RateLimitMessage}

\* C14: when the latest search returns and a sound was loaded for an active
\* track when it was issued, the sound stays loaded and the active track is
\* the current one: at the position of the result with its id, or, when no
\* result has its id, at index 0 ahead of the results; allTracks holds the
\* results only.
C14_SearchKeepsActiveTrack ==
  [][\A task \in searching :
       ActiveSearchReturns(task) =>
         \E list \in SearchLists :
           LET mapped == MappedTracks(list, task.source, task.keyword, task.selectedBitrate)
               existingIndex == FindIndex(mapped, task.activeTrack.id)
           IN /\ allTracks' = mapped
              /\ soundRef.loaded /\ soundRef' = soundRef
              /\ IF existingIndex >= 0
                 THEN /\ currentSongIndex' = existingIndex
                      /\ musicList' = [mapped EXCEPT ![existingIndex + 1] = task.activeTrack]
                 ELSE /\ currentSongIndex' = 0
                      /\ musicList' = <<task.activeTrack>> \o mapped]_vars

\* C15: when no playSong call awaits a response and the current track has a
\* url, a sound is loaded for that url.
C15_ResolvedTrackHasSound ==
  (playing = {} /\ currentSongIndex >= 0 /\ currentSongIndex < Len(musicList)
     /\ ~Falsy(musicList[currentSongIndex + 1].url))
    => (soundRef.loaded /\ soundRef.url = musicList[currentSongIndex + 1].url)

\* the latest playSong call, task, one of the bitrate effect, fails in this
\* step: it is the last call and has thrown, or the call issued after it
\* found it thrown
EffectPlayFails(task) ==
  /\ task \in playing /\ task.auto /\ task.requestId = playRequestIdRef
  /\ \A other \in playing' : other.requestId # task.requestId
  /\ \/ lastPlay'.requestId = task.requestId /\ lastPlay'.st = "thrown"
     \/ lastPlay'.requestId > task.requestId /\ lastPlay'.after = "thrown"

\* C16: when the re-resolution the bitrate effect started fails, the player
\* shows the error and starts no further playSong call by itself.
C16_NoAutomaticRetry ==
  [][\A task \in playing :
       EffectPlayFails(task) =>
         /\ errorMessage' # ""
         /\ playRequestIdRef' = playRequestIdRef
         /\ playing' \subseteq playing]_vars

\* C17: isPlaying is true exactly when a sound is loaded and plays.
C17_IsPlayingTracksSound ==
  isPlaying <=> (soundRef.loaded /\ soundRef.state = "playing")

\* the entries the three lists hold for the track at a position of musicList
EntriesOf(lists, id) ==
  [k \in 1..3 |-> SelectSeq(lists[k], LAMBDA track : track.id = id)]

\* a playSong call for the track of the call issued last, issued before it,
\* ends in this step after that last call has returned
EarlierResolutionEnds(task) ==
  /\ task \in playing /\ task.requestId < lastPlay.requestId
  /\ task.call.track.id = musicList[lastPlay.index + 1].id
  /\ lastPlay.st = "returned"
  /\ \A other \in playing' : other.requestId # task.requestId

\* C18: of two resolutions of one track id pending at once, the one issued
\* last decides what localTracks, allTracks and musicList hold for that id:
\* a response of the earlier one that arrives after it changes nothing there.
C18_LastIssuedResolutionStands ==
  [][\A task \in playing :
       EarlierResolutionEnds(task) =>
         EntriesOf(<<localTracks', allTracks', musicList'>>, task.call.track.id)
           = EntriesOf(<<localTracks, allTracks, musicList>>, task.call.track.id)]_vars

\* the playSong call that is the latest awaits a response (or its catch)
LatestPlayPending == \E task \in playing : task.requestId = playRequestIdRef

\* C19: loadingTrackIndex is non-null exactly while the latest playSong call
\* is pending, neither superseded nor cancelled by resetPlayer, and is then
\* the index of that call; so a superseded call that ends does not clear it,
\* and it is null once no call is pending.
C19_LoadingTracksLatestPlay ==
  /\ loadingTrackIndex # NullIndex <=> LatestPlayPending
  /\ \A task \in playing :
       task.requestId = playRequestIdRef => loadingTrackIndex = task.index

\* a superseded call has ended while the latest one still loads
C19_Witness ==
  /\ lastPlay.late /\ lastPlay.st = "pending" /\ LatestPlayPending
  /\ loadingTrackIndex = lastPlay.index /\ Cardinality(playing) = 1

\* the performSearch call that is the latest awaits its response (or its catch)
LatestSearchPending == \E task \in searching : task.requestId = searchRequestIdRef

\* C20: isSearching is true exactly while the latest performSearch call is
\* pending and not cancelled by an empty-keyword submit or a source change
\* with an empty search term; so a superseded search that ends does not
\* clear it, and it is false once no search is pending.
C20_SearchingTracksLatestSearch ==
  isSearching <=> LatestSearchPending

\* a superseded search has ended while the latest one is still pending
C20_Witness ==
  /\ lastSearch.late /\ isSearching /\ LatestSearchPending /\ Cardinality(searching) = 1

(***************************************************************************)
(* Claims about the requests of one resolution                             *)
(***************************************************************************)
\* the types of the callMusicApi calls of the call, in order, and of those
\* that registerRequest admitted
CalledTypes == [k \in 1..Len(resolveCall.calls) |-> resolveCall.calls[k].types]
AdmittedTypes ==
  LET admitted == SelectSeq(resolveCall.calls, LAMBDA c : c.admitted)
  IN [k \in 1..Len(admitted) |-> admitted[k].types]

Called(types) == \E k \in 1..Len(CalledTypes) : CalledTypes[k] = types

\* the place of a request type in the order search, url, pic, lyric
TypeRank(types) ==
  CASE types = "search" -> 1 [] types = "url" -> 2 [] types = "pic" -> 3
    [] types = "lyric" -> 4

\* the items the call chose among the results of its search
ChosenItems ==
  {r.list[selectBestSearchResult(r.list, resolveCall.track) + 1] :
     r \in {g \in GotOf("search") :
              g.ok /\ selectBestSearchResult(g.list, resolveCall.track) # -1}}

\* C21: the requests of one ensureTrackResolved call come in the order
\* search, url, pic, lyric, at most one of each type, and a request is made
\* only when every earlier one has been answered (or rejected by the rate
\* limiter).  A call that makes a request starts with search iff the track
\* has no trackId.  A call that returns through the remote API has made
\* exactly one url request, a pic request iff the track or the chosen search
\* result has a picId, and a lyric request iff the track has no lyric text and
\* the track or the chosen search result has a lyricId: 1 to 4 requests.
C21_RequestSequence ==
  LET in == resolveCall.track
      picKnown == in.picId # "" \/ \E item \in ChosenItems : item.pic_id # ""
      lyricKnown == in.lyricId # "" \/ \E item \in ChosenItems : item.lyric_id # ""
  IN /\ \A j, k \in 1..Len(CalledTypes) :
          j < k => TypeRank(CalledTypes[j]) < TypeRank(CalledTypes[k])
     /\ SentTypes = AdmittedTypes
     /\ Len(resolveCall.got) = Len(AdmittedTypes) - (IF resolveCall.st = "pending" THEN 1 ELSE 0)
     /\ \A k \in 1..Len(resolveCall.got) : resolveCall.got[k].types = AdmittedTypes[k]
     /\ CalledTypes # <<>> => (CalledTypes[1] = "search" <=> in.trackId = "")
     /\ (resolveCall.st = "returned" /\ ~Cached) =>
          /\ Called("search") <=> in.trackId = ""
          /\ Called("url")
          /\ Called("pic") <=> picKnown
          /\ Called("lyric") <=> (Falsy(in.lyric) /\ lyricKnown)
          /\ Len(CalledTypes) \in 1..4

\* a track without trackId, picId and lyricId is resolved with four requests,
\* the picId and the lyricId taken from the chosen search result
C21_Witness ==
  /\ resolveCall.st = "returned"
  /\ resolveCall.track.trackId = "" /\ resolveCall.track.picId = ""
  /\ resolveCall.track.lyricId = ""
  /\ CalledTypes = <<"search", "url", "pic", "lyric">>
  /\ AdmittedTypes = CalledTypes

\* C22: ensureTrackResolved(track, b) of a track that has a url and bitrate b
\* returns that track as it is in the step that calls it: no request is made
\* or handed to fetch, the timestamps of the rate limiter stay as they are,
\* and localTracks, allTracks and musicList are not written.
C22_CachedResolution ==
  [][(resolveCall.st = "idle" /\ Cached) =>
       /\ resolveCall'.st = "returned"
       /\ resolveCall'.result = resolveCall.track
       /\ resolveCall'.calls = <<>> /\ resolveCall'.got = <<>>
       /\ UNCHANGED <<requestTimestampsRef, fetched, localTracks, allTracks, musicList,
                      now, uiVars>>]_vars

\* a track that has its url is returned while the rate limiter admits nothing
C22_Witness ==
  /\ resolveCall.st = "returned" /\ Cached
  /\ resolveCall.result = resolveCall.track
  /\ Len(requestTimestampsRef) = RATE_LIMIT_MAX_REQUESTS
  /\ fetched = <<>> /\ ListsUntouched

\* a request of these types failed: the rate limiter rejected it, or it was
\* answered and callMusicApi threw
RequestFailed(types) ==
  \/ \E k \in 1..Len(resolveCall.calls) : resolveCall.calls[k] = Rejected(types)
  \/ \E r \in GotOf(types) : ~r.ok

\* C23: a pic or lyric request that fails (rejected by the rate limiter or
\* answered with a failure) does not fail ensureTrackResolved: the call goes
\* on and returns a track with its url, the cover of the input track when the
\* pic request failed, and the lyric and tLyric of the input track when the
\* lyric request failed.
C23_CoverAndLyricsOptional ==
  LET in == resolveCall.track
      out == resolveCall.result
  IN /\ RequestFailed("pic") =>
          /\ resolveCall.st \in {"pending", "returned"}
          /\ resolveCall.st = "pending" => resolveCall.call.pc = "lyric"
          /\ resolveCall.st = "returned" =>
               /\ ~Falsy(out.url) /\ out.url = resolveCall.call.resolvedUrl
               /\ SameValue(out.cover, in.cover)
     /\ RequestFailed("lyric") =>
          /\ resolveCall.st = "returned"
          /\ ~Falsy(out.url) /\ out.url = resolveCall.call.resolvedUrl
          /\ SameValue(out.lyric, in.lyric) /\ SameValue(out.tLyric, in.tLyric)
     /\ (RequestFailed("pic") \/ RequestFailed("lyric")) /\ resolveCall.st = "returned" =>
          /\ ReplacedIn(musicList, resolveCall.before[3], out)
          /\ out.bitrate = resolveCall.desiredBitrate

\* a track with a cover is resolved although its pic request was answered
\* with a failure and its lyric request rejected by the rate limiter
C23_Witness ==
  /\ resolveCall.st = "returned"
  /\ \E r \in GotOf("pic") : ~r.ok
  /\ Rejected("lyric") \in Range(resolveCall.calls)
  /\ resolveCall.track.cover = <<"c", "0">> /\ resolveCall.result.cover = <<"c", "0">>
  /\ ~Falsy(resolveCall.result.url) /\ resolveCall.result.lyric = null

(***************************************************************************)
(* Claims about failures and guards of the player                          *)
(***************************************************************************)
\* the latest playSong call, task, fails in this step: it is the last call
\* and has thrown, or the call issued after it found it thrown
LatestPlayFails(task) ==
  /\ task \in playing /\ task.requestId = playRequestIdRef
  /\ \A other \in playing' : other.requestId # task.requestId
  /\ \/ lastPlay'.requestId = task.requestId /\ lastPlay'.st = "thrown"
     \/ lastPlay'.requestId > task.requestId /\ lastPlay'.after = "thrown"

\* C24: when the latest playSong call fails, errorMessage is the message of
\* the failure, loadingTrackIndex is null and currentSongIndex is as before;
\* when the track that failed is not the current one, the loaded sound stays
\* as it is.
C24_PlayFailure ==
  [][\A task \in playing :
       LatestPlayFails(task) =>
         /\ errorMessage' = (IF task.st = "thrown" THEN task.error ELSE ServiceMessage)
         /\ loadingTrackIndex' = NullIndex
         /\ currentSongIndex' = currentSongIndex
         /\ task.index # currentSongIndex => soundRef' = soundRef]_vars

\* playSong(index) is called in this step
PlaySongCalled(index) == lastPlay'.asks # lastPlay.asks /\ lastPlay'.asked.index = index

\* C25: a playSong(index) call, by a click or by the end of a track, with
\* index below 0 or not below the length of musicList, or with the index
\* that loadingTrackIndex holds, changes nothing:
\* playRequestIdRef and the pending calls stay as they are, no rate-limit
\* slot is taken, and no state of the component or ref is written.
C25_PlaySongGuards ==
  [][\A index \in GuardIndexes :
       (/\ PlaySongCalled(index)
        /\ \/ index < 0 \/ index >= Len(musicList)
           \/ (loadingTrackIndex # NullIndex /\ loadingTrackIndex = index))
         => /\ UNCHANGED <<currentSongIndex, isPlaying, progress, selectedSource,
                           selectedBitrate, coverUrl, searchTerm, loadingTrackIndex,
                           errorMessage, isSearching, showingSearchResults, searchPage,
                           searchHasMore, searchPageInput, lastSearchKeyword, soundRef,
                           autoPlayRef, playRequestIdRef, searchRequestIdRef, playing,
                           searching, trackVars, requestTimestampsRef, fetched>>
            /\ lastPlay' = [lastPlay EXCEPT !.asked = lastPlay'.asked, !.asks = 1 - @]]_vars

\* playSong has been called by a click with an index that is not in the
\* list while its call for index 1 still loads
C25_Witness ==
  /\ loadingTrackIndex = 1 /\ lastPlay.index = 1 /\ lastPlay.st = "pending"
  /\ lastPlay.requestId = playRequestIdRef /\ lastPlay.asks = 0
  /\ lastPlay.asked.index = Len(musicList) /\ lastPlay.asked.by = "click"

(***************************************************************************)
(* Claims about the end of a track                                         *)
(***************************************************************************)
\* the end of the track calls playSong(index) in this step, in a mode
TrackEnds(index, mode) ==
  /\ lastPlay'.asks # lastPlay.asks
  /\ lastPlay'.asked = [index |-> index, by |-> "end", mode |-> mode]

\* the indexes playNext may pass to playSong by the musicList and
\* currentSongIndex of the state
NextIndexes(mode) ==
  IF currentSongIndex < 0 THEN {0}
  ELSE IF mode = "shuffle"
       THEN IF Len(musicList) = 1 THEN {currentSongIndex}
            ELSE (0..(Len(musicList) - 1)) \ {currentSongIndex}
  ELSE IF currentSongIndex >= Len(musicList) - 1 THEN {0}
  ELSE {currentSongIndex + 1}

\* C28: when the track that plays ends in order or shuffle mode, the index
\* passed to playSong is one that playNext chooses by the musicList and the
\* currentSongIndex of that moment, and the track that is then resolved is
\* the one at that index of that musicList, also when a search has replaced
\* the list since the sound was created.
C28_NextFromCurrentList ==
  [][\A mode \in PlaybackModes, index \in -1..(DEFAULT_SEARCH_COUNT + 1) :
       TrackEnds(index, mode) =>
         /\ Len(musicList) > 0
         /\ index \in NextIndexes(mode)
         /\ \A task \in playing' \ playing :
              (~task.auto /\ task.index = index) =>
                task.call.track.id = musicList[index + 1].id]_vars

(***************************************************************************)
(* Claims about the return to the catalog and about failed searches        *)
(***************************************************************************)
\* handleSearch or handleSourceChange goes back to the catalog in this step:
\* the search term is empty or blank and the searches are cancelled
ReturnsToCatalog ==
  Trim(searchTerm) = <<>> /\ searchRequestIdRef' # searchRequestIdRef

\* C26: a submit of an empty or blank search term, and a change to another
\* source while the search term is empty or blank, leave no pending search
\* or play request the latest, set allTracks and musicList to the tracks of
\* localTracks of the selected source, showingSearchResults and isSearching to
\* false, errorMessage to null, searchPage to 1, searchHasMore to false and
\* lastSearchKeyword to null, and reset the player: no sound, currentSongIndex
\* -1, isPlaying false, loadingTrackIndex null, progress 0.  Selecting the
\* source that is selected changes nothing.
C26_ReturnToCatalog ==
  /\ [][ReturnsToCatalog =>
          /\ \A task \in playing' : task.requestId # playRequestIdRef'
          /\ \A task \in searching' : task.requestId # searchRequestIdRef'
          /\ playing' = playing /\ searching' = searching
          /\ localTracks' = localTracks
          /\ allTracks' = OfSource(localTracks, selectedSource')
          /\ musicList' = OfSource(localTracks, selectedSource')
          /\ ~showingSearchResults' /\ ~isSearching' /\ errorMessage' = ""
          /\ searchPage' = 1 /\ ~searchHasMore' /\ lastSearchKeyword' = null
          /\ soundRef' = NoSound /\ currentSongIndex' = -1 /\ ~isPlaying'
          /\ loadingTrackIndex' = NullIndex /\ progress' = 0 /\ coverUrl' = null
          /\ UNCHANGED <<searchTerm, selectedBitrate, requestTimestampsRef>>]_vars
  /\ [](handleSourceChange(State, selectedSource) = State)

\* the source was changed with a blank search term while a play request and
\* nothing else was pending: the catalog of joox is shown, nothing plays
C26_Witness ==
  /\ selectedSource = "joox" /\ searchTerm = <<" ">>
  /\ musicList = OfSource(localTracks, "joox") /\ Len(musicList) = 1
  /\ allTracks = musicList /\ ~showingSearchResults
  /\ currentSongIndex = -1 /\ ~soundRef.loaded /\ loadingTrackIndex = NullIndex
  /\ playing # {} /\ lastSearch.requestId = searchRequestIdRef /\ searchRequestIdRef = 1

\* the latest performSearch call, task, fails in this step
LatestSearchFails(task) ==
  /\ task \in searching /\ task \notin searching'
  /\ task.requestId = searchRequestIdRef
  /\ lastSearch'.requestId = task.requestId /\ lastSearch'.st = "thrown"

\* C27: when the latest performSearch call fails, by a rejection of the rate
\* limiter or a failure of the request, errorMessage is the message of the
\* failure, allTracks is empty, searchHasMore false, showingSearchResults
\* true, searchPage the page asked for and isSearching false; musicList is
\* emptied when no sound was loaded as the search was issued, and otherwise
\* musicList and currentSongIndex stay as they are.
C27_SearchFailure ==
  [][\A task \in searching :
       LatestSearchFails(task) =>
         /\ errorMessage' = (IF task.st = "thrown" THEN RateLimitMessage ELSE ServiceMessage)
         /\ allTracks' = <<>> /\ ~searchHasMore' /\ showingSearchResults'
         /\ searchPage' = task.page /\ lastSearchKeyword' = task.keyword
         /\ ~isSearching'
         /\ IF task.hasActiveSound
            THEN musicList' = musicList /\ currentSongIndex' = currentSongIndex
            ELSE musicList' = <<>>]_vars

\* a search issued while a sound was loaded has failed: the list and the
\* current track are those of before, and no results are held
C27_Witness ==
  /\ lastSearch.st = "thrown" /\ lastSearch.requestId = searchRequestIdRef
  /\ searching = {} /\ soundRef.loaded /\ currentSongIndex = 0
  /\ allTracks = <<>> /\ Len(musicList) = 2 /\ showingSearchResults
  /\ errorMessage = ServiceMessage

\* a step of the handleShowTrackInfo call task: it is taken up where it
\* awaited, or its catch runs
InfoStep(task) == task \in informing /\ task \notin informing'

\* the handleShowTrackInfo call of task ends in this step
InfoEnds(task) ==
  /\ InfoStep(task)
  /\ \A other \in informing' : other.requestId # task.requestId

\* C29: a step of a handleShowTrackInfo call whose request id is not
\* infoRequestIdRef leaves infoModalTrack, infoModalError and
\* infoModalLoading as they are, whenever its responses arrive; the call of
\* the latest request id, when it ends, leaves infoModalLoading false and
\* either an error or the resolved track; and infoModalLoading is true only
\* while the call of the latest request id is suspended.
C29_LatestInfoRequest ==
  /\ [][\A task \in informing :
          /\ InfoStep(task) /\ task.requestId # infoRequestIdRef =>
               UNCHANGED <<infoModalTrack, infoModalError, infoModalLoading,
                           infoModalVisible>>
          /\ InfoEnds(task) /\ task.requestId = infoRequestIdRef =>
               /\ ~infoModalLoading'
               /\ \/ infoModalError' # "" /\ infoModalTrack' = infoModalTrack
                  \/ /\ infoModalError' = infoModalError
                     /\ ~Falsy(infoModalTrack'.url)
                     /\ infoModalTrack' \in Range(musicList')]_vars
  /\ [](infoModalLoading => \E task \in informing : task.requestId = infoRequestIdRef)

\* the info of a track was asked for, the modal closed, the info of the
\* other track asked for and resolved, and the call of the first request has
\* ended after that: the modal shows the second track
C29_Witness ==
  /\ infoRequestIdRef = 2 /\ informing = {} /\ infoModalVisible
  /\ lastInfo.st = "returned" /\ lastInfo.late
  /\ ~infoModalLoading /\ infoModalError = ""
  /\ infoModalTrack = musicList[2] /\ ~Falsy(musicList[2].url)
  /\ ~Falsy(musicList[1].url)

\* the state of the info modal after handleCloseInfoModal
InfoCleared ==
  /\ ~infoModalVisible /\ infoModalTrack = NoTrack
  /\ infoModalError = "" /\ ~infoModalLoading

\* C30: once the info modal is closed, infoModalVisible is false,
\* infoModalTrack null, infoModalError null and infoModalLoading false until
\* handleShowTrackInfo is called again, whatever answers arrive meanwhile.
C30_ClosedStaysCleared ==
  [][InfoCleared /\ infoRequestIdRef' = infoRequestIdRef => InfoCleared']_vars

\* the modal was closed while its request was pending
C30_Witness == InfoCleared /\ informing # {} /\ infoRequestIdRef = 1

\* C31: while no search results are shown and no search is in flight,
\* musicList and allTracks are the tracks of localTracks of the selected
\* source, in the order of localTracks.
C31_CatalogLists ==
  ~showingSearchResults /\ ~isSearching =>
    /\ musicList = OfSource(localTracks, selectedSource)
    /\ allTracks = OfSource(localTracks, selectedSource)

\* the source was changed and the track of the other source has been
\* resolved in the catalog view
C31_Witness ==
  /\ ~showingSearchResults /\ ~isSearching /\ selectedSource # DEFAULT_SOURCE
  /\ Len(musicList) = 1 /\ ~Falsy(musicList[1].url) /\ currentSongIndex = 0

\* a callMusicApi call is made in this step
CallMade == lastCall'.n = lastCall.n + 1

\* the positions of the timestamps of the list that are at most one window
\* older than t
CountedAt(timestamps, t) ==
  {i \in DOMAIN timestamps : timestamps[i] >= t - RATE_LIMIT_WINDOW_MS}

\* C32: a call at time now is admitted iff fewer than RATE_LIMIT_MAX_REQUESTS
\* of the timestamps held are at most RATE_LIMIT_WINDOW_MS old, one of exactly
\* that age counting; every call leaves the list without the older ones,
\* which under a clock that does not go back are its first ones, and with the
\* others in their order; and a call made more than
\* RATE_LIMIT_WINDOW_MS after the oldest timestamp held is admitted.
C32_LimiterRecovers ==
  [][CallMade =>
       /\ ~lastCall'.thrown <=>
            Cardinality(CountedAt(requestTimestampsRef, now)) < RATE_LIMIT_MAX_REQUESTS
       /\ \A i \in DOMAIN requestTimestampsRef' :
            requestTimestampsRef'[i] >= now - RATE_LIMIT_WINDOW_MS
       /\ \E kept \in {SubSeq(requestTimestampsRef,
                                Len(requestTimestampsRef) + 1
                                  - Cardinality(CountedAt(requestTimestampsRef, now)),
                                Len(requestTimestampsRef))} :
            requestTimestampsRef' = IF lastCall'.thrown THEN kept ELSE Append(kept, now)
       /\ (/\ requestTimestampsRef # <<>>
           /\ \E i \in DOMAIN requestTimestampsRef :
                /\ \A j \in DOMAIN requestTimestampsRef :
                     requestTimestampsRef[i] <= requestTimestampsRef[j]
                /\ now > requestTimestampsRef[i] + RATE_LIMIT_WINDOW_MS)
            => ~lastCall'.thrown]_vars

\* the list was full and a call was rejected; the next call, made a
\* millisecond more than one window after the oldest timestamp, was admitted
C32_Witness ==
  /\ lastCall.n = 3 /\ ~lastCall.thrown
  /\ Len(lastCall.before) = RATE_LIMIT_MAX_REQUESTS
  /\ now = lastCall.before[1] + RATE_LIMIT_WINDOW_MS + 1
  /\ requestTimestampsRef = <<now>>

\* playNext or playPrevious is called in this step, by its button
StepsBy(button) ==
  lastPlay'.asks # lastPlay.asks /\ lastPlay'.asked.by = button

\* the index the claim gives for a step from current in a list of n tracks
WrappedIndex(current, n, step) == (current + step + n) % n

\* what C33 says of a call of playNext (step 1) or playPrevious (step -1)
NavigatesAsStated(step) ==
  LET n == Len(musicList)
      asked == lastPlay'.asked.index
  IN IF n = 0
     THEN asked = NullIndex /\ playRequestIdRef' = playRequestIdRef /\ playing' = playing
     ELSE IF currentSongIndex < 0 THEN asked = 0
     ELSE IF playbackModeRef = "shuffle"
          THEN IF n > 1 THEN asked \in (0..(n - 1)) \ {currentSongIndex}
               ELSE asked = currentSongIndex
     ELSE asked = WrappedIndex(currentSongIndex, n, step)

\* C33: playNext and playPrevious do nothing on an empty list; with no
\* current track they pass index 0 to playSong; in shuffle mode an index of
\* the list other than the current one, or the current one in a list of one
\* track; and in the other modes the index after or before the current one,
\* modulo the length of the list.
C33_NextAndPrevious ==
  [][/\ StepsBy("next") => NavigatesAsStated(1)
     /\ StepsBy("previous") => NavigatesAsStated(-1)]_vars

\* the previous button was used on the first track of a list of three in
\* order mode: the last track was asked for
C33_Witness ==
  /\ lastPlay.asked = [index |-> 2, by |-> "previous", mode |-> "order"]
  /\ Len(musicList) = 3 /\ lastPlay.index = 2 /\ lastPlay.st = "pending"

\* the mode button is pressed in this step
ModeToggled == playbackMode' # playbackMode

\* the Howl plays to its end in this step
TrackEndsIn(mode) ==
  lastPlay'.asks # lastPlay.asks /\ lastPlay'.asked.by = "end" /\ playbackModeRef = mode

\* C34: the mode button moves playbackMode from order to single, from single
\* to shuffle and from shuffle to order, and playbackModeRef equals
\* playbackMode in every state; when a track ends in mode single the same
\* Howl plays again from position 0, no playSong call is made and
\* currentSongIndex stays; in the other modes the end of a track calls
\* playNext, which passes an index to playSong.
C34_PlaybackMode ==
  /\ [](playbackModeRef = playbackMode)
  /\ [][/\ ModeToggled =>
            playbackMode' = (CASE playbackMode = "order" -> "single"
                               [] playbackMode = "single" -> "shuffle"
                               [] playbackMode = "shuffle" -> "order")
        /\ TrackEndsIn("single") =>
             /\ soundRef'.loaded /\ soundRef'.url = soundRef.url
             /\ soundRef'.seek = 0 /\ soundRef'.state = "starting"
             /\ soundRef.seek = 1
             /\ playRequestIdRef' = playRequestIdRef /\ playing' = playing
             /\ currentSongIndex' = currentSongIndex
             /\ lastPlay'.asked.index = NullIndex
        /\ \A mode \in PlaybackModes :
             TrackEndsIn(mode) =>
               /\ lastPlay'.asked.index \in 0..(Len(soundRef.closure.musicList) - 1)
               /\ lastPlay'.requestId = playRequestIdRef + 1
               /\ lastPlay'.index = lastPlay'.asked.index]_vars

\* three presses of the mode button have brought the mode back to order, and
\* before that a track ended in mode single and plays again
C34_Witness ==
  /\ playbackMode = "order" /\ playbackModeRef = "order"
  /\ lastPlay.asked = [index |-> NullIndex, by |-> "end", mode |-> "single"]
  /\ soundRef.loaded /\ soundRef.state = "playing" /\ currentSongIndex = 0

\* C35: searchPage is at least 1; while no search results are shown
\* searchPage is 1, searchHasMore false and lastSearchKeyword null; while
\* they are shown lastSearchKeyword is a keyword that is not blank.
C35_SearchPageState ==
  /\ searchPage >= 1
  /\ ~showingSearchResults =>
       searchPage = 1 /\ ~searchHasMore /\ lastSearchKeyword = null
  /\ showingSearchResults =>
       /\ lastSearchKeyword \notin {null, undefined}
       /\ Trim(lastSearchKeyword) # <<>>

\* the third page of a search is shown, with more to come
C35_Witness ==
  /\ showingSearchResults /\ searchPage = 3 /\ searchHasMore /\ ~isSearching
  /\ lastSearchKeyword = <<"k">> /\ Len(allTracks) = DEFAULT_SEARCH_COUNT

\* the number a text of the page input denotes: a sign, digits and an
\* exponent, as a number input holds them; NaN for any other text
EnteredNumber(input) ==
  LET negative == input # <<>> /\ Head(input) = "-"
      body == IF negative THEN Tail(input) ELSE input
      mantissa == LeadingDigits(body)
      rest == SubSeq(body, Len(mantissa) + 1, Len(body))
      exponent == IF rest = <<>> THEN <<>> ELSE Tail(rest)
      wellFormed ==
        /\ mantissa # <<>>
        /\ rest # <<>> =>
             Head(rest) = "e" /\ exponent # <<>> /\ LeadingDigits(exponent) = exponent
      n == ParseInt(mantissa) * 10 ^ ParseInt(exponent)
  IN IF ~wellFormed THEN NaN ELSE Finite(IF negative THEN 0 - n ELSE n)

\* this step is a call of the handler of a page control
PageStep(by) == lastSearch'.asks # lastSearch.asks /\ lastSearch'.asked.by = by

\* this step starts a search of the last keyword at a page
SearchSent(page) ==
  /\ searchRequestIdRef' = searchRequestIdRef + 1
  /\ \E task \in searching' \ searching :
       /\ task.requestId = searchRequestIdRef' /\ task.keyword = lastSearchKeyword
       /\ task.source = selectedSource /\ task.page = page

\* this step starts no search
NoSearchSent ==
  /\ searching' = searching /\ searchRequestIdRef' = searchRequestIdRef
  /\ requestTimestampsRef' = requestTimestampsRef /\ isSearching' = isSearching

\* the latest performSearch call, task, succeeds in this step
LatestSearchSucceeds(task) ==
  /\ task \in searching /\ task \notin searching'
  /\ task.requestId = searchRequestIdRef
  /\ lastSearch'.requestId = task.requestId /\ lastSearch'.st = "returned"

\* the page-jump of a page typed as entered
JumpsTo(entered) ==
  IF lastSearchKeyword = null \/ entered.nan \/ entered.value <= 0
  THEN NoSearchSent ELSE SearchSent(entered.value)

\* C36: after a successful latest search searchHasMore is true iff exactly
\* DEFAULT_SEARCH_COUNT (8) results were returned, and searchPage is the page
\* requested; the previous-page action sends no search when searchPage <= 1,
\* the next-page action none unless searchHasMore, the page-jump none for an
\* input that is not a number or not positive, and none of the three sends
\* one when lastSearchKeyword is null; otherwise they search the last keyword
\* at page searchPage - 1, searchPage + 1 and the entered page.
C36_PaginationGating ==
  [][/\ \A task \in searching :
          LatestSearchSucceeds(task) =>
            /\ searchHasMore' = (Len(allTracks') = DEFAULT_SEARCH_COUNT)
            /\ searchPage' = task.page
     /\ PageStep("prev") =>
          IF lastSearchKeyword = null \/ searchPage <= 1
          THEN NoSearchSent ELSE SearchSent(searchPage - 1)
     /\ PageStep("next") =>
          IF lastSearchKeyword = null \/ ~searchHasMore
          THEN NoSearchSent ELSE SearchSent(searchPage + 1)
     /\ PageStep("submit") => JumpsTo(EnteredNumber(searchPageInput))]_vars

\* the same with the page-jump of the integer that Number.parseInt reads at
\* the head of the input
C36_GatingOfParsedPage ==
  [][/\ \A task \in searching :
          LatestSearchSucceeds(task) =>
            /\ searchHasMore' = (Len(allTracks') = DEFAULT_SEARCH_COUNT)
            /\ searchPage' = task.page
     /\ PageStep("prev") =>
          IF lastSearchKeyword = null \/ searchPage <= 1
          THEN NoSearchSent ELSE SearchSent(searchPage - 1)
     /\ PageStep("next") =>
          IF lastSearchKeyword = null \/ ~searchHasMore
          THEN NoSearchSent ELSE SearchSent(searchPage + 1)
     /\ PageStep("submit") => JumpsTo(NumberParseInt(searchPageInput))]_vars

\* 1e1 was entered on the first page of a search and the jump made: a search
\* of page 1 is pending, not of page 10
C36_Witness ==
  /\ lastSearch.asked.by = "submit" /\ lastSearch.st = "pending"
  /\ lastSearchKeyword = <<"k">> /\ searchPageInput = <<"1", "e", "1">>
  /\ \E task \in searching :
       task.requestId = searchRequestIdRef /\ task.page = 1 /\ task.keyword = <<"k">>

\* the tracks that updateTrackInStates is about to be called with in this
\* state: the base track of a click on an entry of the list, and the resolved
\* track of a playSong call whose last request is answered
UpdatedTracks ==
  {[musicList[k] EXCEPT !.bitrate = selectedBitrate,
                        !.url = IF musicList[k].bitrate # selectedBitrate
                                THEN undefined ELSE @] : k \in 1..Len(musicList)}
  \cup {OnResponse(task.call, OkResponse(task.call), requestTimestampsRef, now).track :
          task \in {p \in playing :
                      /\ p.st = "pending"
                      /\ OnResponse(p.call, OkResponse(p.call),
                                    requestTimestampsRef, now).st = "returned"}}

TrackLists == {"localTracks", "allTracks", "musicList"}

\* r is s with exactly the entries of id updated.id replaced in the three
\* lists, and nothing else changed
OnlyReplaced(s, r, updated) ==
  /\ \A f \in TrackLists :
       /\ Len(r[f]) = Len(s[f])
       /\ \A k \in 1..Len(s[f]) :
            r[f][k] = IF s[f][k].id = updated.id THEN updated ELSE s[f][k]
       /\ (\A k \in 1..Len(s[f]) : s[f][k].id # updated.id) => r[f] = s[f]
  /\ \A f \in (DOMAIN s) \ TrackLists : r[f] = s[f]

\* C37: updateTrackInStates(t) replaces, in each of localTracks, allTracks
\* and musicList, exactly the entries whose id is t.id and leaves the length,
\* the order and every other entry of each list as they are; a list with no
\* entry of that id is unchanged; currentSongIndex, loadingTrackIndex and the
\* search state are not modified.
C37_UpdateFrame ==
  \A updated \in UpdatedTracks :
    OnlyReplaced(State, updateTrackInStates(State, updated), updated)

\* search results are shown and a playSong call of a track of the catalog is
\* about to return: the update changes localTracks and no entry of musicList
C37_Witness ==
  /\ showingSearchResults /\ musicList # <<>>
  /\ \E updated \in UpdatedTracks :
       /\ \A k \in 1..Len(musicList) : musicList[k].id # updated.id
       /\ \E k \in 1..Len(localTracks) :
            localTracks[k].id = updated.id /\ localTracks[k] # updated

\* the positions (from 1) of the lines that have a time, and of those whose
\* time is at most 0.25 s after time
TimedLines(lines) == {k \in 1..Len(lines) : lines[k].time < POSITIVE_INFINITY}
DueLines(lines, time) == {k \in TimedLines(lines) : lines[k].time <= time + 250}

\* the index of the line that is active as stated
StatedActiveIndex(lines, time) ==
  LET timed == TimedLines(lines)
      due == DueLines(lines, time)
  IN IF lines = <<>> THEN -1
     ELSE IF due # {} THEN (CHOOSE k \in due : \A j \in due : j <= k) - 1
     ELSE IF timed # {} THEN (CHOOSE k \in timed : \A j \in timed : k <= j) - 1
     ELSE 0

\* the lines on display in a state of the panel
DisplayOf(lyric, tLyric, show) ==
  displayLyricLines(parseLyricLines(lyric), parseLyricLines(tLyric), show)

\* C38: activeLyricIndex is -1 iff there are no display lines; otherwise it
\* is the index of the last timed line whose time is at most currentTime +
\* 0.25 s, or, when no timed line is, the index of the first timed line, or 0
\* when no line is timed; it is a valid index of the display lines when there
\* are any, and it never decreases as currentTime increases over the same
\* lines.
C38_ActiveLyricLine ==
  /\ [](\A lines \in {DisplayOf(lyricInput, tLyricInput, showTranslation)} :
          \A active \in {activeLyricIndex(lines, currentTime)} :
            /\ (active = -1) <=> (lines = <<>>)
            /\ active = StatedActiveIndex(lines, currentTime)
            /\ lines # <<>> => active \in 0..(Len(lines) - 1))
  /\ [][\A lines \in {DisplayOf(lyricInput, tLyricInput, showTranslation)} :
          (/\ currentTime' > currentTime
           /\ DisplayOf(lyricInput', tLyricInput', showTranslation') = lines)
            => activeLyricIndex(lines, currentTime') >= activeLyricIndex(lines, currentTime)]_vars

\* the time is a quarter of a second before that of the second of three
\* lines, the last without a time: the second line is the active one
C38_Witness ==
  /\ currentTime = 61800
  /\ \E lines \in {DisplayOf(lyricInput, tLyricInput, showTranslation)} :
       /\ Len(lines) = 3 /\ lines[1].time = 1000 /\ lines[2].time = 62050
       /\ lines[3].time = POSITIVE_INFINITY
       /\ activeLyricIndex(lines, currentTime) = 1
====
